---- MODULE Spec2Model ----
(***************************************************************************)
(* Model of sift's analysis cache and batch analysis pipeline:             *)
(*   lib/cache.ts   (hashEmail, getCachedAnalysis, cacheAnalysisBatch,     *)
(*                   removeCachedAnalysis, clearCache)                     *)
(*   lib/claude.ts  (callLLM, analyzeEmails)                               *)
(* Text is a sequence of UTF-16 code units; a 32-bit integer is a pair     *)
(* <<hi, lo>> of 16-bit limbs so that the arithmetic keeps its width.      *)
(***************************************************************************)
EXTENDS Integers, Sequences, FiniteSets, TLC

\* ------------------------------------------------------------------ bounds
\* Longest todo list one backend payload carries in the model.
MaxTodos == 2

\* claude.ts:156 (const BATCH_SIZE = 50), scaled down so that a run over the
\* model's three emails has more than one batch.
BATCH_SIZE == 2

\* ------------------------------------------------------- the mail provider
EmailIds == {"e1", "e2", "e3"}
AccountOf(id) == IF id = "e3" THEN "work" ELSE "personal"
GroupOf(account) == account
ThreadOf(id) == "t-" \o id

\* "Hi", "a@b", "Jan 5", "ok" as code units; every email of the model has
\* its own subject so that two emails never share all six attributes.
FromText == <<97, 64, 98>>
DateText == <<74, 97, 110, 32, 53>>
SnippetText == <<111, 107>>

\* The two flags are the attributes that change during an email's life.
\* e1 stays unread and is starred and unstarred; e2 stays starred; e3 is
\* unread or dealt with.  An email with neither flag is not listed.
Flags == [isStarred : BOOLEAN, isUnread : BOOLEAN]
FlagChoices(id) ==
    CASE id = "e1" -> {fl \in Flags : fl.isUnread}
      [] id = "e2" -> {fl \in Flags : fl.isStarred /\ ~fl.isUnread}
      [] OTHER     -> {fl \in Flags : ~fl.isStarred}
Email(id, fl) ==
    [id |-> id, threadId |-> ThreadOf(id),
     subject |-> CASE id = "e1" -> <<72, 105>>
                   [] id = "e2" -> <<72, 111>>
                   [] OTHER     -> <<82, 101>>,
     from |-> FromText, date |-> DateText, snippet |-> SnippetText,
     isStarred |-> fl.isStarred, isUnread |-> fl.isUnread]

\* --------------------------------------------------------------- hashEmail
Pow16 == 65536

\* x << 5 on a 32-bit word.
Shl5(w) ==
    LET lo32 == w[2] * 32
    IN  <<(w[1] * 32 + lo32 \div Pow16) % Pow16, lo32 % Pow16>>

\* a - b on 32-bit words (two's complement wrap).
SubW(a, b) ==
    LET borrow == IF a[2] < b[2] THEN 1 ELSE 0
    IN  <<(a[1] - b[1] - borrow + 2 * Pow16) % Pow16,
          (a[2] - b[2] + Pow16) % Pow16>>

\* w + c for a code unit c.
AddCode(w, c) ==
    LET lo == w[2] + c
    IN  <<(w[1] + lo \div Pow16) % Pow16, lo % Pow16>>

\* Variant: the last part is left out.
RECURSIVE JoinWithoutLast(_, _)
JoinWithoutLast(parts, sep) ==
    IF Len(parts) <= 1 THEN <<>>
    ELSE IF Len(parts) = 2 THEN parts[1]
    ELSE parts[1] \o sep \o JoinWithoutLast(Tail(parts), sep)

RECURSIVE Join(_, _)
Join(parts, sep) ==
    IF Len(parts) = 0 THEN <<>>
    ELSE IF Len(parts) = 1 THEN parts[1]
    ELSE parts[1] \o sep \o Join(Tail(parts), sep)

\* A 32-bit word: what hash = hash & hash leaves in hash.
IsWord(w) == w[1] \in 0..(Pow16 - 1) /\ w[2] \in 0..(Pow16 - 1)

\* Variant: the loop starts at the second code unit.
RECURSIVE HashLoopFromSecond(_, _, _)
HashLoopFromSecond(content, k, hash) ==
    IF k > Len(content) \/ ~IsWord(hash) THEN hash
    ELSE IF k = 1 THEN HashLoopFromSecond(content, 2, hash)
    ELSE HashLoopFromSecond(content, k + 1,
                            AddCode(SubW(Shl5(hash), hash), content[k]))

\* The loop over content; hash is always a word, and testing it makes TLC
\* evaluate the accumulator at every iteration instead of at the end.
RECURSIVE HashLoop(_, _, _)
HashLoop(content, k, hash) ==
    IF k > Len(content) \/ ~IsWord(hash) THEN hash
    ELSE HashLoop(content, k + 1,
                  AddCode(SubW(Shl5(hash), hash), content[k]))

Digit36 ==
    <<"0", "1", "2", "3", "4", "5", "6", "7", "8", "9", "a", "b", "c", "d",
      "e", "f", "g", "h", "i", "j", "k", "l", "m", "n", "o", "p", "q", "r",
      "s", "t", "u", "v", "w", "x", "y", "z">>

RECURSIVE Digits36(_)
Digits36(n) ==
    IF n = 0 THEN "" ELSE Digits36(n \div 36) \o Digit36[(n % 36) + 1]

\* Number.prototype.toString(36) of the signed 32-bit value of w.
ToString36(w) ==
    LET neg  == w[1] >= 32768
        mag  == IF neg THEN AddCode(<<65535 - w[1], 65535 - w[2]>>, 1)
                ELSE w
        rest == (mag[1] % 36) * Pow16 + mag[2]
        q    == (mag[1] \div 36) * Pow16 + rest \div 36
    IN  (IF neg THEN "-" ELSE "") \o Digits36(q) \o Digit36[(rest % 36) + 1]

\* Variant: the id of the email is hashed too.
hashEmailWithId(email) ==
    LET content == Join(<<email.subject, email.from, email.date,
                          email.snippet,
                          IF email.isStarred THEN <<49>> ELSE <<48>>,
                          IF email.isUnread THEN <<49>> ELSE <<48>>,
                          IF email.id = "e1" THEN <<49>> ELSE <<50>>>>,
                        <<124>>)
    IN  ToString36(HashLoop(content, 1, <<0, 0>>))

hashEmail(email) ==
    LET content == Join(<<email.subject, email.from, email.date,
                          email.snippet,
                          IF email.isStarred THEN <<49>> ELSE <<48>>,
                          IF email.isUnread THEN <<49>> ELSE <<48>>>>,
                        <<124>>)
    IN  ToString36(HashLoop(content, 1, <<0, 0>>))

\* ------------------------------------------------------------------- JSON
\* A JSON object text is the sequence of its <<key, value>> members; a JS
\* object is a function from its own keys.  SQL NULL is the empty text.
SqlNull == <<>>
Null == [null |-> TRUE]

JSONstringify(o) ==
    LET KeyOrder == <<"source", "emailId", "urgency">>
        keys == SelectSeq(KeyOrder, LAMBDA k : k \in DOMAIN o)
    IN  [j \in 1..Len(keys) |-> <<keys[j], o[keys[j]]>>]

JSONparse(text) ==
    [k \in {text[j][1] : j \in 1..Len(text)} |->
        text[CHOOSE j \in 1..Len(text) : text[j][1] = k][2]]

\* { ...o, [k]: v }
Spread(o, k, v) == [x \in DOMAIN o \cup {k} |-> IF x = k THEN v ELSE o[x]]

\* Truthiness of todo.emailId: the key is there and is not "".
HasEmailId(todo) == "emailId" \in DOMAIN todo /\ todo.emailId # ""

\* ------------------------------------------------ the analyzed_emails table
\* The table is a function from the email_id values that have a row
\* (PRIMARY KEY) to the row's other columns.
EmptyTable == [id \in {} |-> Null]

\* Variant: a row that is not a todo is not served from the cache.
getCachedAnalysisTodoOnly(table, emailId, currentHash) ==
    IF emailId \notin DOMAIN table THEN Null
    ELSE IF table[emailId].email_hash # currentHash THEN Null
    ELSE IF table[emailId].is_todo # 1 THEN Null
    ELSE LET row == table[emailId]
         IN  [emailId |-> emailId, account |-> row.account,
              threadId |-> row.thread_id, emailHash |-> row.email_hash,
              isTodo |-> TRUE,
              todo |-> IF row.todo_json # SqlNull
                       THEN JSONparse(row.todo_json) ELSE Null]

\* Variant: the stored hash is not compared with the current one.
getCachedAnalysisAnyHash(table, emailId, currentHash) ==
    IF emailId \notin DOMAIN table THEN Null
    ELSE LET row == table[emailId]
         IN  [emailId |-> emailId, account |-> row.account,
              threadId |-> row.thread_id, emailHash |-> row.email_hash,
              isTodo |-> (row.is_todo = 1),
              todo |-> IF row.todo_json # SqlNull
                       THEN JSONparse(row.todo_json) ELSE Null]

getCachedAnalysis(table, emailId, currentHash) ==
    IF emailId \notin DOMAIN table THEN Null
    ELSE IF table[emailId].email_hash # currentHash THEN Null
    ELSE LET row == table[emailId]
         IN  [emailId |-> emailId, account |-> row.account,
              threadId |-> row.thread_id, emailHash |-> row.email_hash,
              isTodo |-> (row.is_todo = 1),
              todo |-> IF row.todo_json # SqlNull
                       THEN JSONparse(row.todo_json) ELSE Null]

\* SELECT ... WHERE email_id IN (...) AND is_todo = 1 AND todo_json IS NOT NULL
getCachedTodos(table, emailIds) ==
    LET hit == {id \in emailIds \cap DOMAIN table :
                    table[id].is_todo = 1 /\ table[id].todo_json # SqlNull}
    IN  [id \in hit |-> JSONparse(table[id].todo_json)]

\* Variant: every row is written with is_todo = 1.
InsertOrReplaceAsTodo(table, item) ==
    LET row == [account |-> item.account, thread_id |-> item.threadId,
                email_hash |-> item.emailHash,
                is_todo |-> 1,
                todo_json |-> IF item.todo # Null
                              THEN JSONstringify(item.todo)
                              ELSE SqlNull]
    IN  [id \in DOMAIN table \cup {item.emailId} |->
            IF id = item.emailId THEN row ELSE table[id]]

\* One stmt.run of INSERT OR REPLACE.  The analyzed_at column (a timestamp
\* default, read only by getCacheStats) is left out.
InsertOrReplace(table, item) ==
    LET row == [account |-> item.account, thread_id |-> item.threadId,
                email_hash |-> item.emailHash,
                is_todo |-> IF item.isTodo THEN 1 ELSE 0,
                todo_json |-> IF item.todo # Null
                              THEN JSONstringify(item.todo)
                              ELSE SqlNull]
    IN  [id \in DOMAIN table \cup {item.emailId} |->
            IF id = item.emailId THEN row ELSE table[id]]

\* Variant: DELETE ... WHERE email_id = ? AND is_todo = 1.
removeCachedAnalysisTodoOnly(table, emailId) ==
    [id \in {x \in DOMAIN table : x # emailId \/ table[x].is_todo # 1} |->
        table[id]]

\* DELETE FROM analyzed_emails WHERE email_id = ?
removeCachedAnalysis(table, emailId) ==
    [id \in DOMAIN table \ {emailId} |-> table[id]]

\* ------------------------------------------------- the reasoning backend
\* What a backend call that succeeds can answer for a prompt listing the
\* emails `ids`.  A todo copies an emailId of the prompt or invents one
\* ("zz"); an answer may also be a single todo without the key.
RECURSIVE SeqsUpTo(_, _)
SeqsUpTo(S, n) ==
    IF n = 0 THEN {<<>>}
    ELSE LET shorter == SeqsUpTo(S, n - 1)
         IN  shorter \cup {Append(q, x) : q \in shorter, x \in S}

\* kind "text": no {...} in the answer; "malformed": JSON.parse throws;
\* "notodos": an object without a todos array; "json": { todos: [...] }.
Responses(ids) ==
    LET Urgencies    == {"this_week"}
        BackendTodos == [emailId : ids \cup {"zz"}, urgency : Urgencies]
    IN  {[kind |-> k, todos |-> <<>>] :
            k \in {"text", "malformed", "notodos"}}
        \cup {[kind |-> "json", todos |-> q] :
                q \in SeqsUpTo(BackendTodos, MaxTodos)
                        \cup {<<t>> : t \in [urgency : Urgencies]}}

NoResponse == [kind |-> "none", todos |-> <<>>]
NoCall == [preferCli |-> TRUE, apiKey |-> FALSE, calls |-> <<>>,
           cliAvailable |-> "unknown", cli |-> "none", api |-> "none"]

\* ------------------------------------------------------------------ state
VARIABLES
    inbox,          \* provider side: the two flags of every email
    db,             \* committed content of analyzed_emails
    wal,            \* rows written under the open transaction
    pc,             \* where the analyzeEmails call stands
    allEmails,      \* analyzeEmails: flattened input with hashes
    cachedTodos,    \* analyzeEmails: todos served from the cache
    uncachedEmails, \* analyzeEmails: the misses
    allNewTodos,    \* analyzeEmails: todos of the batches done so far
    i,              \* analyzeEmails: loop index into uncachedEmails
    batchTodos,     \* analyzeEmails: todos parsed from the current answer
    cacheEntries,   \* analyzeEmails: entries of the batch being written
    llm,            \* callLLM: configuration read and backends tried
    response,       \* text callLLM resolved with
    result,         \* value analyzeEmails resolved with
    error,          \* message analyzeEmails rejected with
    dbAtStart,      \* history: db when the call started
    adapterCalls,   \* history: callLLM invocations of the call
    progress,       \* history: <<cached, toAnalyze>> of the onProgress calls
    submitted,      \* history: <<emailId, hash>> pairs of the last prompt
    analysed,       \* history: pairs cached since the id's last remove/clear
    lastAnalysed,   \* history: hash cached last since the id's last remove/clear
    removed,        \* history: ids removed while the call was in flight
    lastRun         \* history: what the call before returned, provided the
                    \* inbox and the table were left alone since it started

\* App: the clock, the reminders tool and the React state of the list views.
VARIABLES
    now,            \* clock reading of the init effect's new Date()
    reminders,      \* Apple Reminders: list name -> reminders of the list
    failing,        \* list names for which remindctl exits with an error
    appTodos,       \* App state todos: the active list
    backlog,        \* App state: the backlog
    selectedGroup,  \* App state: group filter or NoGroup
    view,           \* App state: "main" or "backlog"
    selectedIndex,  \* App state: index into the current list
    loading,        \* App state: loading.active
    appError,       \* App state: error (NoError or a message)
    mergeOrder,     \* history: todo id -> position in the list init built
    rows,           \* stdout.rows
    win,            \* TodoList: the window computed by the last render
    reminderLists,  \* config.reminderLists (empty when not configured)
    refreshTimer,   \* the done handler's setTimeout is pending
    keys            \* history: key presses handled since the start

\* Two emails under hashEmail and the fingerprints returned for them.
VARIABLES
    hashing

\* The init() runs in flight, the done handlers whose Promise.all has not
\* settled, and the number of pending auto-refresh timers.  done: the emails
\* whose done action has completed (unstarred, read, cache row removed);
\* unstarred[k]: the emails that were so when run k listed the inbox.
VARIABLES
    pipeline

\* A config under validateConfig and the errors returned for it.
VARIABLES
    validation

appVars == <<now, reminders, failing, appTodos, backlog, selectedGroup, view,
             selectedIndex, loading, appError, mergeOrder, rows, win,
             reminderLists, refreshTimer, keys, hashing, pipeline,
             validation>>

vars == <<inbox, db, wal, pc, allEmails, cachedTodos, uncachedEmails,
          allNewTodos, i, batchTodos, cacheEntries, llm, response, result,
          error, dbAtStart, adapterCalls, progress, submitted, analysed, lastAnalysed,
          removed, lastRun, now, reminders, failing, appTodos, backlog,
          selectedGroup, view, selectedIndex, loading, appError, mergeOrder,
          rows, win, reminderLists, refreshTimer, keys, hashing,
          pipeline, validation>>

runVars == <<allEmails, cachedTodos, uncachedEmails, allNewTodos, i,
             batchTodos, cacheEntries, llm, response, result, error,
             dbAtStart, adapterCalls, progress, submitted>>

NoResult == [todos |-> <<"pending">>]
NoError == ""
NoRun == [returned |-> FALSE, todos |-> <<>>]

\* No email is under hashEmail.
NoHashing == <<>>

\* No config is under validateConfig.
NoValidation == <<>>

\* Runs, promises and timers are not followed.
NoPipeline == [runs |-> <<>>, promises |-> <<>>, timers |-> 0,
               done |-> {}, unstarred |-> <<>>]

NoWindow == [windowStart |-> 0, windowEnd |-> 0, shown |-> <<>>,
             moreAbove |-> <<>>, moreBelow |-> <<>>]

\* selectedGroup null (no filter); the code tests it for truthiness.
NoGroup == ""

\* No analyzeEmails call has been made.
AnalysisIdle ==
    /\ db = EmptyTable
    /\ wal = EmptyTable
    /\ allEmails = <<>>
    /\ cachedTodos = <<>>
    /\ uncachedEmails = <<>>
    /\ allNewTodos = <<>>
    /\ i = 0
    /\ batchTodos = <<>>
    /\ cacheEntries = <<>>
    /\ llm = NoCall
    /\ response = NoResponse
    /\ error = NoError
    /\ dbAtStart = EmptyTable
    /\ adapterCalls = 0
    /\ progress = <<>>
    /\ submitted = {}
    /\ analysed = {}
    /\ lastAnalysed = [id \in {} |-> ""]
    /\ removed = {}
    /\ lastRun = NoRun

\* The App before its init effect has produced anything.
AppIdle ==
    /\ now = 0
    /\ reminders = <<>>
    /\ failing = {}
    /\ appTodos = <<>>
    /\ backlog = <<>>
    /\ selectedGroup = NoGroup
    /\ view = "main"
    /\ selectedIndex = 0
    /\ loading = TRUE
    /\ appError = NoError
    /\ mergeOrder = <<>>
    /\ rows = 0
    /\ win = NoWindow
    /\ reminderLists = <<>>
    /\ refreshTimer = FALSE
    /\ keys = 0
    /\ hashing = NoHashing
    /\ pipeline = NoPipeline
    /\ validation = NoValidation

Init ==
    /\ inbox \in {f \in [EmailIds -> Flags] :
                    \A id \in EmailIds : f[id] \in FlagChoices(id)}
    /\ pc = "idle"
    /\ result = NoResult
    /\ AnalysisIdle
    /\ AppIdle

\* ------------------------------------------------------- fetching (App init)
\* For every account: listStarred, then the listUnread emails not already
\* in the list.
FetchEmails ==
    LET Accounts == <<"personal", "work">>
        FetchAccount(acct) ==
            LET ListingOrder == <<"e1", "e2", "e3">>
                ids      == SelectSeq(ListingOrder,
                                      LAMBDA id : AccountOf(id) = acct)
                starred  == SelectSeq(ids, LAMBDA id : inbox[id].isStarred)
                unread   == SelectSeq(ids, LAMBDA id : inbox[id].isUnread)
                combined == starred \o
                            SelectSeq(unread, LAMBDA id :
                                \A j \in 1..Len(starred) : starred[j] # id)
            IN  [account |-> acct, group |-> GroupOf(acct),
                 emails |-> [k \in 1..Len(combined) |->
                                Email(combined[k], inbox[combined[k]])]]
    IN  [a \in 1..Len(Accounts) |-> FetchAccount(Accounts[a])]

\* ------------------------------------------------------------ analyzeEmails
RECURSIVE Flatten(_)
Flatten(groups) ==
    IF groups = <<>> THEN <<>>
    ELSE LET g == groups[1]
         IN  [k \in 1..Len(g.emails) |->
                [account |-> g.account, group |-> g.group,
                 email |-> g.emails[k], hash |-> hashEmail(g.emails[k])]]
             \o Flatten(Tail(groups))

IsCached(table, item) ==
    getCachedAnalysis(table, item.email.id, item.hash) # Null

RECURSIVE CachedTodosOf(_, _)
CachedTodosOf(table, items) ==
    IF items = <<>> THEN <<>>
    ELSE LET cached == getCachedAnalysis(table, items[1].email.id,
                                         items[1].hash)
             here   == IF cached = Null THEN <<>>
                       ELSE IF cached.isTodo /\ cached.todo # Null
                            THEN <<Spread(cached.todo, "source", "email")>>
                            ELSE <<>>
         IN  here \o CachedTodosOf(table, Tail(items))

\* Variant: a hit that is not a todo is pushed to the misses as well.
UncachedOfOrNotTodo(table, items) ==
    SelectSeq(items, LAMBDA item :
        \/ ~IsCached(table, item)
        \/ ~getCachedAnalysis(table, item.email.id, item.hash).isTodo)

UncachedOf(table, items) ==
    SelectSeq(items, LAMBDA item : ~IsCached(table, item))

Min(a, b) == IF a < b THEN a ELSE b

\* Variant: a batch takes all the emails from k on.
BatchAtToEnd(uncached, k) == SubSeq(uncached, k + 1, Len(uncached))

\* uncachedEmails.slice(k, k + BATCH_SIZE)
BatchAt(uncached, k) == SubSeq(uncached, k + 1, Min(k + BATCH_SIZE, Len(uncached)))

PairsOf(batch) == {<<batch[k].email.id, batch[k].hash>> : k \in 1..Len(batch)}
IdsOf(batch) == {batch[k].email.id : k \in 1..Len(batch)}

\* todosByEmailId.get(id): the last todo of the answer with that emailId.
TodoFor(todos, id) ==
    LET at == {j \in 1..Len(todos) : HasEmailId(todos[j]) /\ todos[j].emailId = id}
    IN  IF at = {} THEN Null
        ELSE todos[CHOOSE j \in at : \A k \in at : k <= j]

\* Variant: only the emails that produced a todo get a cache entry.
CacheEntriesOfTodosOnly(batch, todos) ==
    LET kept == SelectSeq(batch, LAMBDA item :
                    TodoFor(todos, item.email.id) # Null)
    IN  [k \in 1..Len(kept) |->
            [emailId |-> kept[k].email.id, account |-> kept[k].account,
             threadId |-> kept[k].email.threadId,
             emailHash |-> kept[k].hash,
             isTodo |-> TRUE, todo |-> TodoFor(todos, kept[k].email.id)]]

CacheEntriesOf(batch, todos) ==
    [k \in 1..Len(batch) |->
        LET todo == TodoFor(todos, batch[k].email.id)
        IN  [emailId |-> batch[k].email.id, account |-> batch[k].account,
             threadId |-> batch[k].email.threadId,
             emailHash |-> batch[k].hash,
             isTodo |-> (todo # Null), todo |-> todo]]

\* ------------------------------------------------------------------ callLLM
\* Variant: the API is used whenever a key is configured.
StartCallLLMApiFirst(cfg, batch) ==
    /\ adapterCalls' = adapterCalls + 1
    /\ submitted' = PairsOf(batch)
    /\ response' = NoResponse
    /\ error' = NoError
    /\ IF cfg.apiKey
       THEN /\ pc' = "api"
            /\ llm' = [NoCall EXCEPT !.preferCli = cfg.preferCli,
                                     !.apiKey = TRUE,
                                     !.calls = <<"api">>, !.api = "pending"]
       ELSE /\ pc' = "probe"
            /\ llm' = [NoCall EXCEPT !.preferCli = cfg.preferCli,
                                     !.apiKey = FALSE,
                                     !.calls = <<"probe">>]

\* The part of callLLM up to its first await, for the batch `batch`.
StartCallLLM(cfg, batch) ==
    /\ adapterCalls' = adapterCalls + 1
    /\ submitted' = PairsOf(batch)
    /\ response' = NoResponse
    /\ IF cfg.preferCli
       THEN /\ pc' = "probe"
            /\ llm' = [NoCall EXCEPT !.preferCli = TRUE, !.apiKey = cfg.apiKey,
                                     !.calls = <<"probe">>]
            /\ error' = NoError
       ELSE IF cfg.apiKey
       THEN /\ pc' = "api"
            /\ llm' = [NoCall EXCEPT !.preferCli = FALSE, !.apiKey = TRUE,
                                     !.calls = <<"api">>, !.api = "pending"]
            /\ error' = NoError
       ELSE /\ pc' = "failed"
            /\ llm' = [NoCall EXCEPT !.preferCli = FALSE, !.apiKey = FALSE]
            /\ error' = "No LLM available"

Configs == [preferCli : BOOLEAN, apiKey : BOOLEAN]

AnalyzeStart ==
    /\ pc = "idle"
    /\ LET items    == Flatten(FetchEmails)
           hits     == CachedTodosOf(db, items)
           misses   == UncachedOf(db, items)
       IN  /\ allEmails' = items
           /\ cachedTodos' = hits
           /\ uncachedEmails' = misses
           /\ dbAtStart' = db
           /\ progress' =
                  <<<<Len(hits), Len(misses)>>>>
                  \o (IF Len(misses) > BATCH_SIZE
                      THEN <<<<Len(hits), Len(misses)>>>> ELSE <<>>)
           /\ IF Len(misses) = 0
              THEN /\ pc' = "returned"
                   /\ result' = [todos |-> hits]
                   /\ UNCHANGED <<llm, response, error, adapterCalls,
                                  submitted>>
              ELSE /\ \E cfg \in Configs : StartCallLLM(cfg, BatchAt(misses, 0))
                   /\ UNCHANGED result
    /\ UNCHANGED <<inbox, db, wal, allNewTodos, i, batchTodos, cacheEntries,
                   analysed, lastAnalysed, removed, lastRun>>
    /\ UNCHANGED appVars

\* callLLM resolved with the answer r: extract and parse the JSON, build the
\* cache entries and enter cacheAnalysisBatch's transaction (claude.ts
\* 251-289); callLLM's frame is gone.
ParseResponse ==
    /\ pc = "responded"
    /\ llm' = NoCall
    /\ LET r == response IN
       IF r.kind = "text"
       THEN /\ pc' = "failed"
            /\ error' = "No valid JSON in Claude response"
            /\ UNCHANGED <<batchTodos, cacheEntries>>
       ELSE IF r.kind # "json"
       THEN /\ pc' = "failed"
            /\ error' = "Failed to parse Claude response"
            /\ UNCHANGED <<batchTodos, cacheEntries>>
       ELSE LET todos == [j \in 1..Len(r.todos) |->
                            Spread(r.todos[j], "source", "email")]
            IN  /\ pc' = "txn"
                /\ batchTodos' = todos
                /\ cacheEntries' =
                       CacheEntriesOf(BatchAt(uncachedEmails, i), todos)
                /\ UNCHANGED error
    /\ UNCHANGED <<inbox, db, wal, allEmails, cachedTodos, uncachedEmails,
                   allNewTodos, i, response, result, dbAtStart, adapterCalls, progress,
                   submitted, analysed, lastAnalysed, removed, lastRun>>
    /\ UNCHANGED appVars

\* isClaudeCliAvailable() resolved.
CliProbed ==
    /\ pc = "probe"
    /\ \E available \in BOOLEAN :
        IF available
        THEN /\ pc' = "cli"
             /\ llm' = [llm EXCEPT !.cliAvailable = "yes",
                                   !.calls = Append(@, "cli"), !.cli = "pending"]
             /\ UNCHANGED error
        ELSE IF llm.apiKey
        THEN /\ pc' = "api"
             /\ llm' = [llm EXCEPT !.cliAvailable = "no",
                                   !.calls = Append(@, "api"), !.api = "pending"]
             /\ UNCHANGED error
        ELSE /\ pc' = "failed"
             /\ llm' = [llm EXCEPT !.cliAvailable = "no"]
             /\ error' = "No LLM available"
    /\ UNCHANGED <<inbox, db, wal, allEmails, cachedTodos, uncachedEmails,
                   allNewTodos, i, batchTodos, cacheEntries, response, result,
                   dbAtStart, adapterCalls, progress, submitted, analysed, lastAnalysed,
                   removed, lastRun>>
    /\ UNCHANGED appVars

\* Variant: without a key a CLI failure resolves with empty text.
CliClosedSwallowsError ==
    /\ pc = "cli"
    /\ \/ \E r \in Responses(IdsOf(BatchAt(uncachedEmails, i))) :
            /\ pc' = "responded"
            /\ response' = r
            /\ llm' = [llm EXCEPT !.cli = "ok"]
            /\ UNCHANGED error
       \/ IF llm.apiKey
          THEN /\ pc' = "api"
               /\ llm' = [llm EXCEPT !.cli = "failed",
                                     !.calls = Append(@, "api"),
                                     !.api = "pending"]
               /\ UNCHANGED <<error, response>>
          ELSE /\ pc' = "responded"
               /\ response' = [kind |-> "text", todos |-> <<>>]
               /\ llm' = [llm EXCEPT !.cli = "failed"]
               /\ UNCHANGED error
    /\ UNCHANGED <<inbox, db, wal, allEmails, cachedTodos, uncachedEmails,
                   allNewTodos, i, batchTodos, cacheEntries, result,
                   dbAtStart, adapterCalls, progress, submitted, analysed, lastAnalysed,
                   removed, lastRun>>
    /\ UNCHANGED appVars

\* The claude process closed (exit code 0 or not) or could not be spawned.
CliClosed ==
    /\ pc = "cli"
    /\ \/ \E r \in Responses(IdsOf(BatchAt(uncachedEmails, i))) :
            /\ pc' = "responded"
            /\ response' = r
            /\ llm' = [llm EXCEPT !.cli = "ok"]
            /\ UNCHANGED error
       \/ /\ UNCHANGED response
          /\ IF llm.apiKey
             THEN /\ pc' = "api"
                  /\ llm' = [llm EXCEPT !.cli = "failed",
                                        !.calls = Append(@, "api"),
                                        !.api = "pending"]
                  /\ UNCHANGED error
             ELSE /\ pc' = "failed"
                  /\ llm' = [llm EXCEPT !.cli = "failed"]
                  /\ error' = "Claude CLI error"
    /\ UNCHANGED <<inbox, db, wal, allEmails, cachedTodos, uncachedEmails,
                   allNewTodos, i, batchTodos, cacheEntries, result,
                   dbAtStart, adapterCalls, progress, submitted, analysed, lastAnalysed,
                   removed, lastRun>>
    /\ UNCHANGED appVars

\* Variant: an API failure is caught and the todos so far are returned.
ApiReturnedPartial ==
    /\ pc = "api"
    /\ \/ \E r \in Responses(IdsOf(BatchAt(uncachedEmails, i))) :
            /\ pc' = "responded"
            /\ response' = r
            /\ llm' = [llm EXCEPT !.api = "ok"]
            /\ UNCHANGED <<error, result>>
       \/ /\ pc' = "returned"
          /\ result' = [todos |-> cachedTodos \o allNewTodos]
          /\ llm' = [llm EXCEPT !.api = "failed"]
          /\ UNCHANGED <<response, error>>
    /\ UNCHANGED <<inbox, db, wal, allEmails, cachedTodos, uncachedEmails,
                   allNewTodos, i, batchTodos, cacheEntries, dbAtStart,
                   adapterCalls, progress, submitted, analysed, lastAnalysed, removed,
                   lastRun>>
    /\ UNCHANGED appVars

\* client.messages.create settled.
ApiReturned ==
    /\ pc = "api"
    /\ \/ \E r \in Responses(IdsOf(BatchAt(uncachedEmails, i))) :
            /\ pc' = "responded"
            /\ response' = r
            /\ llm' = [llm EXCEPT !.api = "ok"]
            /\ UNCHANGED error
       \/ /\ pc' = "failed"
          /\ UNCHANGED response
          /\ llm' = [llm EXCEPT !.api = "failed"]
          /\ error' = "Anthropic API error"
    /\ UNCHANGED <<inbox, db, wal, allEmails, cachedTodos, uncachedEmails,
                   allNewTodos, i, batchTodos, cacheEntries, result,
                   dbAtStart, adapterCalls, progress, submitted, analysed, lastAnalysed,
                   removed, lastRun>>
    /\ UNCHANGED appVars

\* Variant: no db.transaction around the loop, every stmt.run commits.
StmtRunAutocommit ==
    /\ pc = "txn"
    /\ cacheEntries # <<>>
    /\ db' = InsertOrReplace(db, Head(cacheEntries))
    /\ cacheEntries' = Tail(cacheEntries)
    /\ UNCHANGED <<inbox, wal, pc, allEmails, cachedTodos, uncachedEmails,
                   allNewTodos, i, batchTodos, llm, response, result, error,
                   dbAtStart, adapterCalls, progress, submitted, analysed, lastAnalysed,
                   removed, lastRun>>
    /\ UNCHANGED appVars

\* One stmt.run inside insertMany.
StmtRun ==
    /\ pc = "txn"
    /\ cacheEntries # <<>>
    /\ wal' = InsertOrReplace(wal, Head(cacheEntries))
    /\ cacheEntries' = Tail(cacheEntries)
    /\ UNCHANGED <<inbox, db, pc, allEmails, cachedTodos, uncachedEmails,
                   allNewTodos, i, batchTodos, llm, response, result, error,
                   dbAtStart, adapterCalls, progress, submitted, analysed, lastAnalysed,
                   removed, lastRun>>
    /\ UNCHANGED appVars

\* insertMany returns (COMMIT), the batch's todos are pushed and the loop
\* goes on to the next batch's callLLM or to the return (claude.ts 289-294).
CommitBatch ==
    /\ pc = "txn"
    /\ cacheEntries = <<>>
    /\ LET batch == BatchAt(uncachedEmails, i)
           next  == i + BATCH_SIZE
           todos == allNewTodos \o batchTodos
       IN  /\ db' = [id \in DOMAIN db \cup DOMAIN wal |->
                        IF id \in DOMAIN wal THEN wal[id] ELSE db[id]]
           /\ wal' = EmptyTable
           /\ allNewTodos' = todos
           /\ i' = next
           /\ analysed' = analysed \cup PairsOf(batch)
           /\ lastAnalysed' =
                  [id \in DOMAIN lastAnalysed \cup IdsOf(batch) |->
                      IF id \in IdsOf(batch)
                      THEN (CHOOSE p \in PairsOf(batch) : p[1] = id)[2]
                      ELSE lastAnalysed[id]]
           /\ IF next < Len(uncachedEmails)
              THEN /\ progress' =
                          Append(progress,
                                 <<Len(cachedTodos) + Len(todos),
                                   Len(uncachedEmails) - next>>)
                   /\ \E cfg \in Configs :
                        StartCallLLM(cfg, BatchAt(uncachedEmails, next))
                   /\ UNCHANGED result
              ELSE /\ pc' = "returned"
                   /\ result' = [todos |-> cachedTodos \o todos]
                   /\ UNCHANGED <<llm, response, error, adapterCalls,
                                  progress, submitted>>
    /\ UNCHANGED <<inbox, allEmails, cachedTodos, uncachedEmails, batchTodos,
                   cacheEntries, dbAtStart, removed, lastRun>>
    /\ UNCHANGED appVars

\* The caller takes the result or catches the error; the call's frame goes.
CallerResumes ==
    /\ pc \in {"returned", "failed"}
    /\ pc' = "idle"
    /\ allEmails' = <<>>
    /\ cachedTodos' = <<>>
    /\ uncachedEmails' = <<>>
    /\ allNewTodos' = <<>>
    /\ i' = 0
    /\ batchTodos' = <<>>
    /\ cacheEntries' = <<>>
    /\ llm' = NoCall
    /\ response' = NoResponse
    /\ result' = NoResult
    /\ error' = NoError
    /\ dbAtStart' = EmptyTable
    /\ adapterCalls' = 0
    /\ progress' = <<>>
    /\ submitted' = {}
    /\ removed' = {}
    /\ lastRun' = IF pc = "returned" /\ removed = {}
                  THEN [returned |-> TRUE, todos |-> result.todos]
                  ELSE NoRun
    /\ UNCHANGED <<inbox, db, wal, analysed, lastAnalysed>>
    /\ UNCHANGED appVars

\* ------------------------------------------------------------ process crash
\* The process dies while a call is in flight.  The open transaction is
\* rolled back when the file is next opened and the call's memory is lost;
\* the input, the miss list, the loop index and the histories stay in the
\* crashed state only as a record of how far the call had come.
Crash ==
    /\ pc \in {"probe", "cli", "api", "responded", "txn"}
    /\ pc' = "crashed"
    /\ wal' = EmptyTable
    /\ cachedTodos' = <<>>
    /\ allNewTodos' = <<>>
    /\ batchTodos' = <<>>
    /\ cacheEntries' = <<>>
    /\ llm' = NoCall
    /\ response' = NoResponse
    /\ UNCHANGED <<inbox, db, allEmails, uncachedEmails, i, result, error,
                   dbAtStart, adapterCalls, progress, submitted, analysed, lastAnalysed,
                   removed, lastRun>>
    /\ UNCHANGED appVars

Restart ==
    /\ pc = "crashed"
    /\ pc' = "idle"
    /\ allEmails' = <<>>
    /\ cachedTodos' = <<>>
    /\ uncachedEmails' = <<>>
    /\ allNewTodos' = <<>>
    /\ i' = 0
    /\ batchTodos' = <<>>
    /\ cacheEntries' = <<>>
    /\ llm' = NoCall
    /\ response' = NoResponse
    /\ result' = NoResult
    /\ error' = NoError
    /\ dbAtStart' = EmptyTable
    /\ adapterCalls' = 0
    /\ progress' = <<>>
    /\ submitted' = {}
    /\ removed' = {}
    /\ lastRun' = NoRun
    /\ UNCHANGED <<inbox, db, wal, analysed, lastAnalysed>>
    /\ UNCHANGED appVars

\* -------------------------------------------------------------- environment
\* The user stars, unstars, reads an email in the mail provider.
SetFlags ==
    /\ pc = "idle"
    /\ \E id \in EmailIds, fl \in Flags :
        /\ fl \in FlagChoices(id)
        /\ inbox[id] # fl
        /\ inbox' = [inbox EXCEPT ![id] = fl]
    /\ lastRun' = NoRun
    /\ UNCHANGED <<db, wal, pc, analysed, lastAnalysed, removed>>
    /\ UNCHANGED runVars
    /\ UNCHANGED appVars

\* removeCachedAnalysis(emailId), called from the done handler's promise
\* callback: between calls or while a call awaits its backend.
RemoveCachedId(id) ==
    /\ pc \in {"idle", "probe", "cli", "api"}
    /\ db' = removeCachedAnalysis(db, id)
    /\ analysed' = {p \in analysed : p[1] # id}
    /\ lastAnalysed' = [x \in DOMAIN lastAnalysed \ {id} |-> lastAnalysed[x]]
    /\ removed' = IF pc = "idle" THEN removed ELSE removed \cup {id}
    /\ lastRun' = NoRun
    /\ UNCHANGED <<inbox, wal, pc>>
    /\ UNCHANGED runVars
    /\ UNCHANGED appVars

RemoveCached == \E id \in EmailIds : RemoveCachedId(id)

ClearCache ==
    /\ pc = "idle"
    /\ db' = EmptyTable
    /\ analysed' = {}
    /\ lastAnalysed' = [id \in {} |-> ""]
    /\ lastRun' = NoRun
    /\ UNCHANGED <<inbox, wal, pc, removed>>
    /\ UNCHANGED runVars
    /\ UNCHANGED appVars

Next ==
    \/ AnalyzeStart
    \/ CliProbed
    \/ CliClosed
    \/ ApiReturned
    \/ ParseResponse
    \/ StmtRun
    \/ CommitBatch
    \/ CallerResumes
    \/ Crash
    \/ Restart
    \/ SetFlags
    \/ RemoveCached
    \/ ClearCache

Spec == Init /\ [][Next]_vars

\* ================================================================= claims
InFlight == pc \in {"probe", "cli", "api", "responded", "txn"}
ToSet(q) == {q[j] : j \in 1..Len(q)}
AllHashes == {hashEmail(Email(id, fl)) : id \in EmailIds, fl \in Flags}

\* The row of id is what it was when the call started.
Untouched(id) ==
    /\ id \in DOMAIN db <=> id \in DOMAIN dbAtStart
    /\ id \in DOMAIN db => db[id] = dbAtStart[id]

\* The row of item carries the fingerprint the call computed for it.
Written(item) ==
    /\ item.email.id \in DOMAIN db
    /\ db[item.email.id].email_hash = item.hash

AllHit(table, items) ==
    \A k \in 1..Len(items) :
        /\ items[k].email.id \in DOMAIN table
        /\ table[items[k].email.id].email_hash = items[k].hash

\* callLLM threw: the API failed, or the CLI was unusable and no key is set.
AdapterFailed ==
    \/ llm.api = "failed"
    \/ /\ ~llm.apiKey
       /\ \/ llm.cli = "failed"
          \/ llm.cliAvailable = "no"
          \/ ~llm.preferCli

\* ---- C1
\* C1 as stated: while a call is in flight, no pair <<identity, fingerprint>>
\* of the prompt is a pair that was analysed and cached before (with no
\* remove or clear of it since).
C1_NeverSubmittedAgain == InFlight => submitted \cap analysed = {}

\* C1, amended: a pair is never submitted while its fingerprint is the one
\* cached last for its identity (with no remove or clear since); the table
\* keeps one fingerprint per identity, so an older pair can come back.
C1_LastCachedNotSubmitted ==
    InFlight =>
        \A p \in submitted :
            ~(p[1] \in DOMAIN lastAnalysed /\ lastAnalysed[p[1]] = p[2])

\* A call submits some email while another email of its input, analysed and
\* cached by an earlier call, is served from the cache.
C1_Witness ==
    /\ InFlight
    /\ submitted # {}
    /\ \E k \in 1..Len(allEmails) :
        LET id == allEmails[k].email.id
        IN  /\ <<id, allEmails[k].hash>> \in analysed
            /\ <<id, allEmails[k].hash>> \notin submitted
            /\ id \in DOMAIN dbAtStart
            /\ dbAtStart[id].email_hash = allEmails[k].hash

\* ---- C2
\* C2: a call whose every input email has a row with the email's current
\* fingerprint returns at once the todos of the rows flagged is_todo, calls
\* the adapter zero times and leaves the table as it was.
C2_AllCachedReturnsAtOnce ==
    (pc # "idle" /\ AllHit(dbAtStart, allEmails)) =>
        LET todoIds == {id \in IdsOf(allEmails) : dbAtStart[id].is_todo = 1}
        IN  /\ pc = "returned"
            /\ adapterCalls = 0
            /\ db = dbAtStart
            /\ wal = EmptyTable
            /\ Len(result.todos) = Cardinality(todoIds)
            /\ ToSet(result.todos) =
                   {Spread(JSONparse(dbAtStart[id].todo_json), "source", "email") :
                        id \in todoIds}

C2_Witness ==
    /\ pc = "returned"
    /\ adapterCalls = 0
    /\ Len(allEmails) >= 2
    /\ AllHit(dbAtStart, allEmails)
    /\ result.todos # <<>>
    /\ Len(result.todos) < Len(allEmails)

\* ---- C3
\* C3 as stated: a call made right after a call that returned, with the
\* inbox and the table left alone in between, returns the same set of todos.
C3_RerunReturnsSameSet ==
    (pc = "returned" /\ lastRun.returned) =>
        ToSet(result.todos) = ToSet(lastRun.todos)

\* ---- C4
\* C4: when callLLM throws for the batch starting at index i, the call is
\* rejected without a result, no later batch is submitted, the rows of the
\* batches before i carry the fingerprints the call wrote and the rows of the
\* batch at i and after are what they were when the call started (rows
\* removed by the done handler meanwhile aside).
C4_AdapterFailureAbortsCall ==
    AdapterFailed =>
        /\ pc = "failed"
        /\ result = NoResult
        /\ wal = EmptyTable
        /\ adapterCalls = (i \div BATCH_SIZE) + 1
        /\ \A k \in 1..Len(uncachedEmails) :
            uncachedEmails[k].email.id \notin removed =>
                IF k <= i THEN Written(uncachedEmails[k])
                ELSE Untouched(uncachedEmails[k].email.id)

C4_Witness ==
    /\ pc = "failed"
    /\ AdapterFailed
    /\ i >= BATCH_SIZE
    /\ Len(uncachedEmails) > i
    /\ removed = {}
    /\ \A k \in 1..i : Written(uncachedEmails[k])

\* ---- C5
\* C5: the step that commits a batch leaves, for every email of the batch, a
\* row with the fingerprint computed for the email, flagged is_todo exactly
\* when the answer holds a todo with the email's id; the email is then a
\* cache hit.
C5_EveryBatchItemCached ==
    [][CommitBatch =>
        \A k \in 1..Len(BatchAt(uncachedEmails, i)) :
            LET item == BatchAt(uncachedEmails, i)[k]
                id   == item.email.id
            IN  /\ id \in DOMAIN db'
                /\ db'[id].email_hash = item.hash
                /\ (db'[id].is_todo = 1) <=>
                       (\E j \in 1..Len(batchTodos) :
                            /\ HasEmailId(batchTodos[j])
                            /\ batchTodos[j].emailId = id)
                /\ db'[id].is_todo \in {0, 1}
                /\ getCachedAnalysis(db', id, item.hash) # Null]_vars

\* A one-batch call of two emails returned; one is cached as a todo, the
\* other as not a todo.
C5_Witness ==
    /\ pc = "returned"
    /\ adapterCalls = 1
    /\ Len(uncachedEmails) = 2
    /\ Written(uncachedEmails[1])
    /\ Written(uncachedEmails[2])
    /\ db[uncachedEmails[1].email.id].is_todo = 1
    /\ db[uncachedEmails[2].email.id].is_todo = 0

\* ---- C6
\* C6 as stated: a todo whose emailId is the id of no email of the call is
\* neither in the list the call returns nor in the table.
C6_OrphanDropped ==
    /\ pc = "returned" =>
        \A j \in 1..Len(result.todos) :
            HasEmailId(result.todos[j]) =>
                result.todos[j].emailId \in IdsOf(allEmails)
    /\ \A id \in DOMAIN db :
        db[id].todo_json # SqlNull =>
            JSONparse(db[id].todo_json).emailId = id

\* ---- C7
\* C7: in every state the committed table holds, for each batch of the call,
\* either the rows of all its emails or of none (rows removed by the done
\* handler meanwhile aside); after a crash the batches before the loop index
\* are all there, the others are untouched and nothing is left of the open
\* transaction.
C7_BatchWriteAtomic ==
    pc # "idle" =>
        /\ \A b \in {k \in 0..Len(uncachedEmails) :
                        k % BATCH_SIZE = 0 /\ k < Len(uncachedEmails)} :
            LET items == {item \in ToSet(BatchAt(uncachedEmails, b)) :
                              item.email.id \notin removed}
            IN  \/ \A item \in items : Written(item)
                \/ \A item \in items : Untouched(item.email.id)
        /\ pc = "crashed" =>
            /\ wal = EmptyTable
            /\ \A k \in 1..Len(uncachedEmails) :
                uncachedEmails[k].email.id \notin removed =>
                    IF k <= i THEN Written(uncachedEmails[k])
                    ELSE Untouched(uncachedEmails[k].email.id)

\* The process crashed after the first batch's write and before the second's.
C7_Witness ==
    /\ pc = "crashed"
    /\ i = BATCH_SIZE
    /\ Len(uncachedEmails) > BATCH_SIZE
    /\ removed = {}
    /\ \A k \in 1..BATCH_SIZE : Written(uncachedEmails[k])
    /\ \A k \in (BATCH_SIZE + 1)..Len(uncachedEmails) :
        Untouched(uncachedEmails[k].email.id)

\* ---- C8
\* C8: getCachedAnalysis(id, f) returns an entry exactly when id has a row
\* whose email_hash is f, the entry is that row's, and the lookups of a call
\* leave the table unchanged.
C8_LookupIffSameFingerprint ==
    /\ [](\A id \in EmailIds \cup {"zz"}, f \in AllHashes :
            LET found == getCachedAnalysis(db, id, f)
            IN  /\ found # Null <=>
                       (id \in DOMAIN db /\ db[id].email_hash = f)
                /\ found # Null =>
                       /\ found.emailId = id
                       /\ found.emailHash = f
                       /\ found.isTodo <=> db[id].is_todo = 1
                       /\ found.todo = Null <=> db[id].todo_json = SqlNull
                       /\ found.todo # Null =>
                              JSONstringify(found.todo) = db[id].todo_json)
    /\ [][AnalyzeStart => db' = db /\ wal' = wal]_vars

\* A call found one email under its fingerprint and another under a
\* different one.
C8_Witness ==
    /\ InFlight
    /\ cachedTodos # <<>>
    /\ \E k \in 1..Len(uncachedEmails) :
        uncachedEmails[k].email.id \in DOMAIN dbAtStart

\* ---- C9
\* C9: removeCachedAnalysis(id) leaves no row for id, so that no fingerprint
\* finds it, and changes no other row; without a row it changes nothing; and
\* a row for an id that has none appears only with the commit of a batch that
\* holds the id.
C9_RemoveDeletesOnlyThatRow ==
    /\ [][\A id \in EmailIds :
            RemoveCachedId(id) =>
                /\ \A f \in AllHashes : getCachedAnalysis(db', id, f) = Null
                /\ id \notin DOMAIN db'
                /\ \A o \in EmailIds \ {id} :
                    /\ o \in DOMAIN db' <=> o \in DOMAIN db
                    /\ o \in DOMAIN db => db'[o] = db[o]
                /\ id \notin DOMAIN db => db' = db]_vars
    /\ [][\A id \in EmailIds :
            (id \notin DOMAIN db /\ id \in DOMAIN db') =>
                /\ CommitBatch
                /\ id \in IdsOf(BatchAt(uncachedEmails, i))]_vars

\* The row of an email that was a hit when the call started was removed
\* while the call awaited its backend.
C9_Witness ==
    /\ pc \in {"probe", "cli", "api"}
    /\ \E k \in 1..Len(allEmails) :
        LET id == allEmails[k].email.id
        IN  /\ id \in removed
            /\ id \in DOMAIN dbAtStart
            /\ dbAtStart[id].email_hash = allEmails[k].hash
            /\ id \notin DOMAIN db

\* ---- C10
\* C10: when the CLI is preferred callLLM starts with it (its availability
\* probe, then the CLI if available) before any API call; once the call is
\* settled or has reached the API, the API was invoked exactly when a key is
\* configured and the CLI was not preferred, not available or failed; and
\* the API is never invoked in a call whose CLI invocation succeeded.
C10_ApiOnlyAsFallback ==
    LET ApiInvoked == \E j \in 1..Len(llm.calls) : llm.calls[j] = "api"
        CliInvoked == \E j \in 1..Len(llm.calls) : llm.calls[j] = "cli"
        ApiDue ==
            /\ llm.apiKey
            /\ \/ ~llm.preferCli
               \/ llm.cliAvailable = "no"
               \/ llm.cli = "failed"
        CallSettled == pc = "responded" \/ (pc = "failed" /\ AdapterFailed)
    IN
    /\ (llm.calls # <<>> /\ llm.preferCli) => llm.calls[1] = "probe"
    /\ (ApiInvoked /\ llm.cliAvailable = "yes") =>
           \E j \in 1..Len(llm.calls) :
               /\ llm.calls[j] = "cli"
               /\ \A k \in 1..j : llm.calls[k] # "api"
    /\ (pc = "api" \/ CallSettled) => (ApiInvoked <=> ApiDue)
    /\ pc = "api" <=> llm.api = "pending"
    /\ llm.cli = "ok" => ~ApiInvoked
    /\ ~llm.preferCli => ~CliInvoked

\* The CLI was preferred, available and failed; the API answered.
C10_Witness ==
    /\ pc = "responded"
    /\ llm.calls = <<"probe", "cli", "api">>
    /\ llm.cli = "failed"
    /\ llm.api = "ok"

\* ---- C11
\* C11: when the CLI failed and no key is configured, callLLM rejects with
\* the CLI's error and hands no answer over; and whenever callLLM has
\* resolved with an answer, the CLI or the API returned successfully in that
\* call.
C11_NoResultWithoutBackendSuccess ==
    /\ (llm.cli = "failed" /\ ~llm.apiKey) =>
           /\ pc = "failed"
           /\ error = "Claude CLI error"
           /\ response = NoResponse
           /\ result = NoResult
    /\ pc = "responded" =>
           /\ response # NoResponse
           /\ llm.cli = "ok" \/ llm.api = "ok"
    /\ (pc = "failed" /\ AdapterFailed) => response = NoResponse

\* The CLI was probed available, ran and failed; there is no key.
C11_Witness ==
    /\ pc = "failed"
    /\ llm.calls = <<"probe", "cli">>
    /\ llm.cli = "failed"
    /\ ~llm.apiKey
    /\ error = "Claude CLI error"

\* ---- C12
UrgencyTiers == {"overdue", "this_week", "when_you_can"}

\* C12 as stated: an answer that is not a valid payload (a JSON object with
\* a todos list whose todos each carry an emailId and an urgency of the
\* three tiers) makes the call fail; the call never goes on to cache or
\* return with it.
C12_InvalidPayloadFailsCall ==
    LET ValidPayload(r) ==
            /\ r.kind = "json"
            /\ \A j \in 1..Len(r.todos) :
                /\ HasEmailId(r.todos[j])
                /\ r.todos[j].urgency \in UrgencyTiers
    IN  (response # NoResponse /\ ~ValidPayload(response)) =>
        /\ pc \in {"responded", "failed"}
        /\ batchTodos = <<>>
        /\ result = NoResult

\* ==================================================== the App after analysis
\* ------------------------------------------------------------------- dates
\* A Date is a count of clock ticks; TicksPerDay ticks make a calendar day.
TicksPerDay == 2
StalenessDays == 30
WeekDays == 7
Days(n) == n * TicksPerDay

\* new Date(s) of a string that does not parse.
NaN == 0 - 1

\* new Date(d.getFullYear(), d.getMonth(), d.getDate())
DateOnly(t) == (t \div TicksPerDay) * TicksPerDay

\* a < b and a <= b on Dates: false as soon as one side is NaN.
DateLess(a, b) == a # NaN /\ b # NaN /\ a < b
DateLessEq(a, b) == a # NaN /\ b # NaN /\ a <= b

\* The day of the run, late enough for every date of the model to be
\* positive.
Today == StalenessDays + WeekDays + 3

\* ------------------------------------------------------------ reminders.ts
SIFT_PREFIX == "sift:email:"

\* Notes are a sequence of lines.  A line is plain text or the line
\* `${SIFT_PREFIX}${emailId}`.
TextLine(text) == [prefix |-> "", rest |-> text]
RefLine(emailId) == [prefix |-> SIFT_PREFIX, rest |-> emailId]

\* notes.includes(SIFT_PREFIX), notes.startsWith(SIFT_PREFIX) and the first
\* match of `${SIFT_PREFIX}([a-zA-Z0-9]+)`.
NotesInclude(notes) == \E k \in 1..Len(notes) : notes[k].prefix = SIFT_PREFIX
NotesMatch(notes) ==
    LET k == CHOOSE k \in 1..Len(notes) :
                /\ notes[k].prefix = SIFT_PREFIX
                /\ \A j \in 1..(k - 1) : notes[j].prefix # SIFT_PREFIX
    IN  notes[k].rest

HasDueDate(reminder) == "dueDate" \in DOMAIN reminder
HIGH == 1

\* remindctl list "<list>" --json: TRUE when it exits with an error.
ListFails(list) == list \in failing

RECURSIVE StatesOf(_, _)
StatesOf(rs, states) ==
    IF rs = <<>> THEN states
    ELSE LET r == Head(rs)
         IN  IF NotesInclude(r.notes)
             THEN LET id == NotesMatch(r.notes)
                      st == IF r.isCompleted THEN "completed" ELSE "pending"
                  IN  StatesOf(Tail(rs),
                               [e \in DOMAIN states \cup {id} |->
                                    IF e = id THEN st ELSE states[e]])
             ELSE StatesOf(Tail(rs), states)

getEmailReminderStates(list) ==
    IF ListFails(list) THEN [e \in {} |-> "none"]
    ELSE StatesOf(reminders[list], [e \in {} |-> "none"])

\* Variant: a reminder due today counts as overdue.
reminderToUrgencyDueTodayOverdue(reminder, clock) ==
    LET today == DateOnly(clock) IN
    IF HasDueDate(reminder) /\ DateLessEq(DateOnly(reminder.dueDate), today)
    THEN "overdue"
    ELSE IF HasDueDate(reminder)
            /\ DateLessEq(DateOnly(reminder.dueDate), today + Days(WeekDays))
    THEN "this_week"
    ELSE IF reminder.priority = HIGH THEN "this_week"
    ELSE "when_you_can"

\* `clock` is the new Date() the function reads.
reminderToUrgency(reminder, clock) ==
    LET today == DateOnly(clock) IN
    IF HasDueDate(reminder) /\ DateLess(DateOnly(reminder.dueDate), today)
    THEN "overdue"
    ELSE IF HasDueDate(reminder)
            /\ DateLessEq(DateOnly(reminder.dueDate), today + Days(WeekDays))
    THEN "this_week"
    ELSE IF reminder.priority = HIGH THEN "this_week"
    ELSE "when_you_can"

isRelevantReminder(reminder, clock) ==
    IF reminder.isCompleted THEN FALSE
    ELSE IF reminder.notes # <<>> /\ reminder.notes[1].prefix = SIFT_PREFIX
    THEN FALSE
    ELSE IF HasDueDate(reminder)
    THEN DateLessEq(DateOnly(reminder.dueDate),
                    DateOnly(clock) + Days(WeekDays))
    ELSE reminder.priority = HIGH

\* The Todo fetchPendingReminders pushes for a relevant reminder.
ReminderTodo(reminder, config, clock) ==
    [source |-> "reminder",
     id |-> "reminder-" \o reminder.id,
     reminderId |-> reminder.id,
     account |-> config.list,
     group |-> config.group,
     urgency |-> reminderToUrgency(reminder, clock),
     date |-> IF HasDueDate(reminder) THEN reminder.dueDate ELSE clock,
     isStarred |-> FALSE,
     reminderState |-> "pending"]

RECURSIVE TodosOfList(_, _, _)
TodosOfList(rs, config, clock) ==
    IF rs = <<>> THEN <<>>
    ELSE (IF isRelevantReminder(Head(rs), clock)
          THEN <<ReminderTodo(Head(rs), config, clock)>> ELSE <<>>)
         \o TodosOfList(Tail(rs), config, clock)

RECURSIVE fetchPendingReminders(_, _)
fetchPendingReminders(lists, clock) ==
    IF lists = <<>> THEN <<>>
    ELSE (IF ListFails(Head(lists).list) THEN <<>>
          ELSE TodosOfList(reminders[Head(lists).list], Head(lists), clock))
         \o fetchPendingReminders(Tail(lists), clock)

\* The notes createReminderFromTodo writes without options.notes: the Gmail
\* link, an empty line, the From line, an empty line and the back-reference
\* (the todos of the model carry a threadId and no reasoning).
\* urgencyToPriority; urgencyToDue gives no due date as the todos of the
\* model carry no deadline.
\* The reminder `remindctl add` files for the todo.
NewReminder(todo) ==
    [id |-> "r-" \o todo.emailId,
     notes |-> <<TextLine("https://mail.google.com/mail/u/0/#inbox/"
                          \o todo.threadId),
                 TextLine(""), TextLine("From: " \o todo.from), TextLine(""),
                 RefLine(todo.emailId)>>,
     isCompleted |-> FALSE,
     priority |-> IF todo.urgency = "overdue" THEN HIGH ELSE 0]

\* createReminderFromTodo(todo, list): the content of `list` afterwards when
\* remindctl succeeds (`ok`); nothing is added for a todo without emailId
\* or with a reminder already.
createReminderFromTodo(todo, list, ok) ==
    IF \/ ~HasEmailId(todo)
       \/ todo.emailId \in DOMAIN getEmailReminderStates(list)
       \/ ~ok
    THEN reminders
    ELSE [reminders EXCEPT ![list] = Append(@, NewReminder(todo))]

\* -------------------------------------------------------- index.tsx: lists
\* Array.prototype.sort(compare): an insertion of each element behind the
\* elements that compare <= to it (the sort is stable).  A comparator value
\* of NaN counts as 0.
Compare(a, b) == IF a = NaN \/ b = NaN THEN 0 ELSE a - b

\* Variant: an element is inserted before the elements equal to it.
RECURSIVE InsertSortedBeforeEqual(_, _)
InsertSortedBeforeEqual(sorted, x) ==
    IF sorted = <<>> THEN <<x>>
    ELSE IF Compare(Head(sorted).key, x.key) < 0
    THEN <<Head(sorted)>> \o InsertSortedBeforeEqual(Tail(sorted), x)
    ELSE <<x>> \o sorted

RECURSIVE InsertSorted(_, _)
InsertSorted(sorted, x) ==
    IF sorted = <<>> THEN <<x>>
    ELSE IF Compare(Head(sorted).key, x.key) <= 0
    THEN <<Head(sorted)>> \o InsertSorted(Tail(sorted), x)
    ELSE <<x>> \o sorted

RECURSIVE SortPairs(_)
SortPairs(pairs) ==
    IF pairs = <<>> THEN <<>>
    ELSE InsertSorted(SortPairs(SubSeq(pairs, 1, Len(pairs) - 1)),
                      pairs[Len(pairs)])

SortByUrgency(list) ==
    LET urgencyOrder(urgency) ==
            CASE urgency = "overdue" -> 0
              [] urgency = "this_week" -> 1
              [] urgency = "when_you_can" -> 2
              [] OTHER -> NaN
        sorted == SortPairs([k \in 1..Len(list) |->
                    [key |-> urgencyOrder(list[k].urgency), item |-> list[k]]])
    IN  [k \in 1..Len(list) |-> sorted[k].item]

SortByDate(list) ==
    LET sorted == SortPairs([k \in 1..Len(list) |->
                    [key |-> list[k].date, item |-> list[k]]])
    IN  [k \in 1..Len(list) |-> sorted[k].item]

InGroup(list, group) == SelectSeq(list, LAMBDA t : t.group = group)

filteredTodos ==
    SortByUrgency(IF selectedGroup # NoGroup
                  THEN InGroup(appTodos, selectedGroup) ELSE appTodos)

filteredBacklog ==
    SortByDate(IF selectedGroup # NoGroup
               THEN InGroup(backlog, selectedGroup) ELSE backlog)

currentList == IF view = "backlog" THEN filteredBacklog ELSE filteredTodos


\* --------------------------------------------- index.tsx: init, after analyze
defaultList == IF reminderLists # <<>> THEN reminderLists[1].list ELSE "Work"

\* Variant: a reminder state that came with the todo is kept.
HydrateKeepsStored(todo, states) ==
    IF "reminderState" \in DOMAIN todo THEN todo
    ELSE Spread(todo, "reminderState",
                IF HasEmailId(todo) /\ todo.emailId \in DOMAIN states
                THEN states[todo.emailId] ELSE "none")

Hydrate(todo, states) ==
    Spread(todo, "reminderState",
           IF HasEmailId(todo) /\ todo.emailId \in DOMAIN states
           THEN states[todo.emailId] ELSE "none")

\* Variant: a todo dated at thirtyDaysAgo goes to the backlog too.
IsOldInclusive(todo, clock) ==
    DateLessEq(todo.date, clock - Days(StalenessDays))

\* todoDate < thirtyDaysAgo
IsOld(todo, clock) == DateLess(todo.date, clock - Days(StalenessDays))

\* Variant: the reminder todos are split by age like the others.
ActiveAndOldByAge(resultTodos, clock) ==
    LET states   == getEmailReminderStates(defaultList)
        hydrated == [k \in 1..Len(resultTodos) |->
                        Hydrate(resultTodos[k], states)]
        all      == hydrated \o fetchPendingReminders(reminderLists, clock)
    IN  [active |-> SelectSeq(all, LAMBDA t : ~IsOld(t, clock)),
         old    |-> SelectSeq(all, LAMBDA t : IsOld(t, clock))]

\* The lists init builds from the analysis result and the reminders.
ActiveAndOld(resultTodos, clock) ==
    LET states   == getEmailReminderStates(defaultList)
        hydrated == [k \in 1..Len(resultTodos) |->
                        Hydrate(resultTodos[k], states)]
    IN  [active |-> SelectSeq(hydrated, LAMBDA t : ~IsOld(t, clock))
                    \o fetchPendingReminders(reminderLists, clock),
         old    |-> SelectSeq(hydrated, LAMBDA t : IsOld(t, clock))]

\* id -> position, for the items of the two lists.
PositionsOf(active, old) ==
    [id \in {active[k].id : k \in 1..Len(active)}
            \cup {old[k].id : k \in 1..Len(old)} |->
        IF \E k \in 1..Len(active) : active[k].id = id
        THEN CHOOSE k \in 1..Len(active) : active[k].id = id
        ELSE CHOOSE k \in 1..Len(old) : old[k].id = id]

\* ------------------------------------------------------------ App: inputs
MaxKeys == 2

\* What analyzeEmails resolves with: todos for e1, e2 (which carries a
\* reminder state from an earlier answer) and e3, dated around thirtyDaysAgo.
AnalysisTodo(emailId, urgency, date) ==
    [source |-> "email", id |-> "todo-" \o emailId, emailId |-> emailId,
     threadId |-> ThreadOf(emailId), account |-> AccountOf(emailId),
     group |-> GroupOf(AccountOf(emailId)), from |-> "a@b",
     urgency |-> urgency, date |-> date, isStarred |-> FALSE]

Boundary == Days(Today) - Days(StalenessDays)

\* The reminders of the lists Work and Home: one filed for the e2 todo (by
\* createReminderFromTodo, or with the back-reference as its first line) and
\* reminders the user made.
\* What the lists hold matters to init only where they can be read.
ReminderChoices(unreadable) ==
    LET UserReminder(id, due, priority) ==
            IF due = NaN
            THEN [id |-> id, notes |-> <<TextLine("call")>>,
                  isCompleted |-> FALSE, priority |-> priority]
            ELSE [id |-> id, notes |-> <<TextLine("call")>>,
                  isCompleted |-> FALSE, priority |-> priority,
                  dueDate |-> due]
        LateTick == TicksPerDay - 1
        UserChoices ==
            {<<>>} \cup
            {<<UserReminder("u1", dp[1], dp[2])>> :
                dp \in {<<NaN, 0>>, <<NaN, HIGH>>,
                        <<Days(Today - StalenessDays - 1) + LateTick, 0>>,
                        <<Days(Today), 0>>,
                        <<Days(Today + WeekDays) + LateTick, 0>>,
                        <<Days(Today + WeekDays + 1), HIGH>>}}
        filed == NewReminder(AnalysisTodo("e2", "overdue", Boundary))
        FiledChoices ==
            {<<>>, <<filed>>, <<[filed EXCEPT !.isCompleted = TRUE]>>,
             <<[filed EXCEPT !.notes = <<RefLine("e2")>>]>>}
    IN  {[Work |-> f \o u, Home |-> <<UserReminder("h1", Days(Today), 0)>>] :
            f \in IF "Work" \in unreadable THEN {<<filed>>}
                  ELSE FiledChoices,
            u \in IF "Work" \in unreadable
                  THEN {<<UserReminder("u1", Days(Today), 0)>>}
                  ELSE UserChoices}

\* analyzeEmails has resolved with `result`; the App is still loading.
InitApp ==
    /\ AnalysisIdle
    /\ inbox = [id \in EmailIds |-> [isStarred |-> id = "e2", isUnread |-> id # "e2"]]
    /\ pc = "returned"
    /\ LET TodoChoices1 ==
               {<<AnalysisTodo("e1", "when_you_can", d)>> :
                   d \in {Boundary, Boundary + 1}}
           TodoChoices2 ==
               {<<>>} \cup {<<Spread(AnalysisTodo("e2", "overdue", d),
                                     "reminderState", "completed")>> :
                               d \in {Boundary, Boundary - TicksPerDay}}
           TodoChoices3 ==
               {<<AnalysisTodo("e3", "when_you_can", d)>> :
                   d \in {Days(Today), NaN}}
       IN  result \in {[todos |-> a \o b \o c] :
                          a \in TodoChoices1, b \in TodoChoices2,
                          c \in TodoChoices3}
    /\ now \in {Days(Today) + h : h \in 0..(TicksPerDay - 1)}
    /\ failing \in {{}, {"Work"}, {"Work", "Home"}}
    /\ reminders \in ReminderChoices(failing)
    /\ reminderLists \in {<<>>, <<[list |-> "Work", group |-> "personal"],
                                  [list |-> "Home", group |-> "work"]>>}
    /\ appTodos = <<>>
    /\ backlog = <<>>
    /\ selectedGroup = NoGroup
    /\ view = "main"
    /\ selectedIndex = 0
    /\ loading = TRUE
    /\ appError = NoError
    /\ mergeOrder = <<>>
    /\ rows = 0
    /\ win = NoWindow
    /\ refreshTimer = FALSE
    /\ keys = 0
    /\ hashing = NoHashing
    /\ pipeline = NoPipeline
    /\ validation = NoValidation

\* ----------------------------------------------------------- App: actions
analysisVars == <<wal, allEmails, cachedTodos, uncachedEmails, allNewTodos,
                  i, batchTodos, cacheEntries, llm, response, error,
                  dbAtStart, adapterCalls, progress, submitted, analysed, lastAnalysed,
                  removed, lastRun, hashing, pipeline, validation>>

\* setTodos / setBacklog / setSelectedGroup followed by the render.
\* Without a group filter the sort of the render runs on the state array
\* itself.
Render(newTodos, newBacklog, newGroup) ==
    /\ selectedGroup' = newGroup
    /\ appTodos' = IF newGroup = NoGroup THEN SortByUrgency(newTodos)
                   ELSE newTodos
    /\ backlog' = IF newGroup = NoGroup THEN SortByDate(newBacklog)
                  ELSE newBacklog

\* Variant: an error of the reminders tool reaches init's catch.
ReconcileTrackerErrorBlocks ==
    /\ pc = "returned"
    /\ loading
    /\ IF ListFails(defaultList)
       THEN /\ appError' = "remindctl failed"
            /\ Render(appTodos, backlog, selectedGroup)
            /\ UNCHANGED mergeOrder
       ELSE LET lists == ActiveAndOld(result.todos, now)
            IN  /\ Render(lists.active, lists.old, selectedGroup)
                /\ mergeOrder' = PositionsOf(lists.active, lists.old)
                /\ UNCHANGED appError
    /\ loading' = FALSE
    /\ pc' = "idle"
    /\ UNCHANGED <<inbox, db, result, now, reminders, failing, view,
                   selectedIndex, rows, win, reminderLists, refreshTimer,
                   keys>>
    /\ UNCHANGED analysisVars

\* init from the resolution of analyzeEmails on (index.tsx 831-872).
Reconcile ==
    /\ pc = "returned"
    /\ loading
    /\ LET lists == ActiveAndOld(result.todos, now)
       IN  /\ Render(lists.active, lists.old, selectedGroup)
           /\ mergeOrder' = PositionsOf(lists.active, lists.old)
    /\ loading' = FALSE
    /\ pc' = "idle"
    /\ UNCHANGED <<inbox, db, result, now, reminders, failing, view,
                   selectedIndex, appError, rows, win, reminderLists,
                   refreshTimer, keys>>
    /\ UNCHANGED analysisVars

\* useInput runs the handler: not while loading.
KeyPress ==
    /\ ~loading
    /\ keys < MaxKeys
    /\ keys' = keys + 1

HasSelection == selectedIndex >= 0 /\ selectedIndex < Len(currentList)
Selected == currentList[selectedIndex + 1]
Without(list, id) == SelectSeq(list, LAMBDA t : t.id # id)
Max(a, b) == IF a > b THEN a ELSE b

KeyUp ==
    /\ KeyPress
    /\ selectedIndex' = Max(0, selectedIndex - 1)
    /\ Render(appTodos, backlog, selectedGroup)
    /\ UNCHANGED <<inbox, db, pc, result, now, reminders, failing, view,
                   loading, appError, mergeOrder, rows, win, reminderLists,
                   refreshTimer>>
    /\ UNCHANGED analysisVars

KeyDown ==
    /\ KeyPress
    /\ selectedIndex' = Min(Len(currentList) - 1, selectedIndex + 1)
    /\ Render(appTodos, backlog, selectedGroup)
    /\ UNCHANGED <<inbox, db, pc, result, now, reminders, failing, view,
                   loading, appError, mergeOrder, rows, win, reminderLists,
                   refreshTimer>>
    /\ UNCHANGED analysisVars

\* "b" toggles the backlog view; escape leaves it.
KeyBacklog ==
    /\ KeyPress
    /\ \/ view' = (IF view = "backlog" THEN "main" ELSE "backlog")
       \/ view = "backlog" /\ view' = "main"
    /\ selectedIndex' = 0
    /\ Render(appTodos, backlog, selectedGroup)
    /\ UNCHANGED <<inbox, db, pc, result, now, reminders, failing, loading,
                   appError, mergeOrder, rows, win, reminderLists,
                   refreshTimer>>
    /\ UNCHANGED analysisVars

\* A digit 1..N selects the N-th account group, or clears the filter.
KeyGroup ==
    /\ KeyPress
    /\ LET accountGroups == <<"personal", "work">>
       IN  \E num \in 1..Len(accountGroups) :
               Render(appTodos, backlog,
                      IF selectedGroup = accountGroups[num] THEN NoGroup
                      ELSE accountGroups[num])
    /\ selectedIndex' = 0
    /\ UNCHANGED <<inbox, db, pc, result, now, reminders, failing, view,
                   loading, appError, mergeOrder, rows, win, reminderLists,
                   refreshTimer>>
    /\ UNCHANGED analysisVars

\* remindctl complete "<reminderId>"
Completed(reminderId) ==
    [l \in DOMAIN reminders |->
        [k \in 1..Len(reminders[l]) |->
            IF reminders[l][k].id = reminderId
            THEN [reminders[l][k] EXCEPT !.isCompleted = TRUE]
            ELSE reminders[l][k]]]

\* completeReminderByEmail: the first reminder of the list whose notes hold
\* the back-reference is completed, if the list can be read.
completeReminderByEmail(emailId, list) ==
    LET rs    == reminders[list]
        NotesReferTo(notes) ==
            \E k \in 1..Len(notes) :
                notes[k].prefix = SIFT_PREFIX /\ notes[k].rest = emailId
        found == {k \in 1..Len(rs) : NotesReferTo(rs[k].notes)}
    IN  IF ListFails(list) \/ found = {} THEN reminders
        ELSE Completed(rs[CHOOSE k \in found : \A j \in found : k <= j].id)

SetField(list, id, field, value) ==
    [k \in 1..Len(list) |->
        IF list[k].id = id THEN Spread(list[k], field, value) ELSE list[k]]

\* "d": the todo under the selection is done.
KeyDone ==
    LET
        \* "d" on a todo made from a reminder.
        DoneReminder(todo) ==
            /\ \/ reminders' = Completed(todo.reminderId)
               \/ UNCHANGED reminders
            /\ IF view = "backlog"
               THEN Render(appTodos, Without(backlog, todo.id), selectedGroup)
               ELSE Render(Without(appTodos, todo.id), backlog, selectedGroup)
            /\ selectedIndex' =
                   Min(selectedIndex, Max(0, Len(Without(currentList, todo.id)) - 1))
            /\ UNCHANGED <<inbox, db, result, refreshTimer>>

        \* "d" on a todo made from an email: the reminder is completed, then the
        \* email is unstarred and marked read; when both calls resolve the row is
        \* removed from the cache and the todo from its list.
        DoneEmail(todo) ==
            /\ \/ /\ todo.reminderState # "none"
                  /\ reminders' = completeReminderByEmail(todo.emailId, defaultList)
               \/ UNCHANGED reminders
            /\ \/ /\ inbox' = [inbox EXCEPT ![todo.emailId] =
                                  [isStarred |-> FALSE, isUnread |-> FALSE]]
                  /\ db' = removeCachedAnalysis(db, todo.emailId)
                  /\ result' = [todos |-> Without(result.todos, todo.id)]
                  /\ IF view = "backlog"
                     THEN /\ Render(appTodos, Without(backlog, todo.id), selectedGroup)
                          /\ UNCHANGED refreshTimer
                     ELSE /\ Render(Without(appTodos, todo.id), backlog, selectedGroup)
                          /\ refreshTimer' =
                                 (refreshTimer \/ Len(Without(appTodos, todo.id)) < 5)
                  /\ selectedIndex' =
                         Min(selectedIndex,
                             Max(0, Len(Without(currentList, todo.id)) - 1))
               \/ /\ Render(appTodos, backlog, selectedGroup)
                  /\ UNCHANGED <<inbox, db, result, selectedIndex, refreshTimer>>
    IN
    /\ KeyPress
    /\ HasSelection
    /\ IF Selected.source = "reminder"
       THEN DoneReminder(Selected)
       ELSE DoneEmail(Selected)
    /\ UNCHANGED <<pc, now, failing, view, loading, appError, mergeOrder,
                   rows, win, reminderLists>>
    /\ UNCHANGED analysisVars

\* "s": client.star(emailId) and, when it resolves, the flag in the list.
KeyStar ==
    /\ KeyPress
    /\ HasSelection
    /\ Selected.source = "email"
    /\ ~Selected.isStarred
    /\ \/ /\ inbox' = [inbox EXCEPT ![Selected.emailId].isStarred = TRUE]
          /\ IF view = "backlog"
             THEN Render(appTodos,
                         SetField(backlog, Selected.id, "isStarred", TRUE),
                         selectedGroup)
             ELSE Render(SetField(appTodos, Selected.id, "isStarred", TRUE),
                         backlog, selectedGroup)
       \/ /\ Render(appTodos, backlog, selectedGroup)
          /\ UNCHANGED inbox
    /\ UNCHANGED <<db, pc, result, now, reminders, failing, view,
                   selectedIndex, loading, appError, mergeOrder, rows, win,
                   reminderLists, refreshTimer>>
    /\ UNCHANGED analysisVars

\* "t": the todo is marked pending and a reminder is filed for it (the
\* remindctl call may fail).
KeyRemind ==
    /\ KeyPress
    /\ HasSelection
    /\ Selected.source = "email"
    /\ Selected.reminderState = "none"
    /\ IF view = "backlog"
       THEN Render(appTodos,
                   SetField(backlog, Selected.id, "reminderState", "pending"),
                   selectedGroup)
       ELSE Render(SetField(appTodos, Selected.id, "reminderState", "pending"),
                   backlog, selectedGroup)
    /\ \E ok \in BOOLEAN :
        reminders' = createReminderFromTodo(Selected, defaultList, ok)
    /\ UNCHANGED <<inbox, db, pc, result, now, failing, view, selectedIndex,
                   loading, appError, mergeOrder, rows, win, reminderLists,
                   refreshTimer>>
    /\ UNCHANGED analysisVars

\* "r": the lists are emptied and init runs again; analyzeEmails resolves
\* with the todos of the emails still listed.
KeyRefresh ==
    /\ KeyPress
    /\ loading' = TRUE
    /\ Render(<<>>, <<>>, selectedGroup)
    /\ selectedIndex' = 0
    /\ view' = "main"
    /\ pc' = "returned"
    /\ UNCHANGED <<inbox, db, result, now, reminders, failing, appError,
                   mergeOrder, rows, win, reminderLists, refreshTimer>>
    /\ UNCHANGED analysisVars

\* The done handler's timer: init runs again, the lists stay on screen.
TimerFires ==
    /\ refreshTimer
    /\ refreshTimer' = FALSE
    /\ loading' = TRUE
    /\ pc' = "returned"
    /\ Render(appTodos, backlog, selectedGroup)
    /\ UNCHANGED <<inbox, db, result, now, reminders, failing, view,
                   selectedIndex, appError, mergeOrder, rows, win,
                   reminderLists, keys>>
    /\ UNCHANGED analysisVars

NextApp ==
    \/ Reconcile
    \/ KeyUp
    \/ KeyDown
    \/ KeyBacklog
    \/ KeyGroup
    \/ KeyDone
    \/ KeyStar
    \/ KeyRemind
    \/ KeyRefresh
    \/ TimerFires

SpecApp == InitApp /\ [][NextApp]_vars

\* ============================================================ claims, App
ItemsOf(list) == {list[k] : k \in 1..Len(list)}
EmailItems(list) == {t \in ItemsOf(list) : t.source = "email"}
ReminderItems(list) == {t \in ItemsOf(list) : t.source = "reminder"}
DayOf(t) == t \div TicksPerDay

\* The first load has just ended.
JustLoaded == ~loading /\ keys = 0 /\ appError = NoError

\* ---- C13
\* C13: the step that ends init leaves every todo of the analysis result in
\* one of the two lists with the reminder state the query of the default
\* list reported for its emailId, whatever state the todo came with.  The
\* query reports none when it fails or no reminder refers to emailId, else
\* the state of the last reminder that does.
C13_StateFromTrackerOnly ==
    [][Reconcile =>
        LET Reported(emailId) ==
                LET rs   == reminders[defaultList]
                    refs == {k \in 1..Len(rs) :
                                /\ NotesInclude(rs[k].notes)
                                /\ NotesMatch(rs[k].notes) = emailId}
                IN  IF defaultList \in failing \/ refs = {} THEN "none"
                    ELSE IF rs[CHOOSE k \in refs :
                                  \A j \in refs : j <= k].isCompleted
                    THEN "completed" ELSE "pending"
        IN  /\ \A t \in EmailItems(appTodos') \cup EmailItems(backlog') :
                t.reminderState = Reported(t.emailId)
            /\ \A k \in 1..Len(result.todos) :
                \E t \in EmailItems(appTodos') \cup EmailItems(backlog') :
                    t.id = result.todos[k].id]_vars

\* The e2 todo came with "completed" and shows "pending", as the list
\* reports; the e1 todo, which no reminder refers to, shows "none".
C13_Witness ==
    /\ JustLoaded
    /\ \E k \in 1..Len(result.todos) :
        /\ result.todos[k].emailId = "e2"
        /\ result.todos[k].reminderState = "completed"
    /\ \E t \in EmailItems(appTodos) \cup EmailItems(backlog) :
        t.emailId = "e2" /\ t.reminderState = "pending"
    /\ \E t \in EmailItems(appTodos) \cup EmailItems(backlog) :
        t.emailId = "e1" /\ t.reminderState = "none"

\* ---- C14
\* C14: when every query of the reminders tool fails, the step that ends
\* init still ends the loading without an error and shows exactly the todos
\* of the analysis result, each with state none, and no reminder todo.
C14_TrackerFailureDoesNotBlock ==
    [][(/\ Reconcile
        /\ defaultList \in failing
        /\ \A k \in 1..Len(reminderLists) :
            reminderLists[k].list \in failing) =>
        /\ ~loading'
        /\ appError' = NoError
        /\ ReminderItems(appTodos') \cup ReminderItems(backlog') = {}
        /\ {t.id : t \in ItemsOf(appTodos') \cup ItemsOf(backlog')} =
               {result.todos[k].id : k \in 1..Len(result.todos)}
        /\ Len(appTodos') + Len(backlog') = Len(result.todos)
        /\ \A t \in ItemsOf(appTodos') \cup ItemsOf(backlog') :
            t.reminderState = "none"]_vars

C14_Witness ==
    /\ JustLoaded
    /\ reminderLists # <<>>
    /\ failing = {"Work", "Home"}
    /\ Len(result.todos) >= 2
    /\ Len(appTodos) + Len(backlog) = Len(result.todos)
    /\ reminders["Work"] # <<>>

\* ---- C15
\* C15 as stated: no todo made from a reminder comes from a reminder whose
\* notes hold a back-reference.
C15_NoBackReferenceSurfaced ==
    \A t \in ReminderItems(appTodos) \cup ReminderItems(backlog) :
        \A l \in DOMAIN reminders :
            \A k \in 1..Len(reminders[l]) :
                reminders[l][k].id = t.reminderId =>
                    ~NotesInclude(reminders[l][k].notes)

\* ---- C16
\* The pending reminders without a back-reference of the configured lists
\* that can be read, each with the group of its list.
UserCreated ==
    {r \in UNION {ItemsOf(reminders[reminderLists[k].list]) :
                    k \in {j \in 1..Len(reminderLists) :
                             reminderLists[j].list \notin failing}} :
        ~r.isCompleted /\ ~NotesInclude(r.notes)}

DueBeforeToday(r) == HasDueDate(r) /\ DayOf(r.dueDate) < DayOf(now)
DueWithinWeek(r) ==
    HasDueDate(r) /\ DayOf(r.dueDate) <= DayOf(now) + WeekDays

\* C16 as stated: the step that ends init turns every pending user-made
\* reminder into a reminder todo, overdue when due before today, this_week
\* when due within 7 days or of high priority, when_you_can otherwise.
C16_EveryUserReminderConverted ==
    [][Reconcile =>
        \A r \in UserCreated :
            \E t \in ReminderItems(appTodos') :
                /\ t.reminderId = r.id
                /\ t.urgency =
                       IF DueBeforeToday(r) THEN "overdue"
                       ELSE IF DueWithinWeek(r) \/ r.priority = HIGH
                       THEN "this_week"
                       ELSE "when_you_can"]_vars

\* C16, amended: a pending user-made reminder becomes a reminder todo
\* exactly when it is due no later than 7 days from today or has no due date
\* and high priority; the todo is overdue when due before today and
\* this_week otherwise.  The other pending reminders are not listed.
C16_RelevantUserReminderConverted ==
    [][Reconcile =>
        \A r \in UserCreated :
            IF DueWithinWeek(r) \/ (~HasDueDate(r) /\ r.priority = HIGH)
            THEN \E t \in ReminderItems(appTodos') :
                    /\ t.reminderId = r.id
                    /\ t.id = "reminder-" \o r.id
                    /\ t.urgency = IF DueBeforeToday(r) THEN "overdue"
                                   ELSE "this_week"
                    /\ t.reminderState = "pending"
            ELSE \A t \in ReminderItems(appTodos') : t.reminderId # r.id]_vars

\* One user-made reminder is listed overdue, one this_week (due today).
C16_Witness ==
    /\ JustLoaded
    /\ \E t \in ReminderItems(appTodos) :
        t.reminderId = "u1" /\ t.urgency = "overdue"
    /\ \E t \in ReminderItems(appTodos) :
        t.reminderId = "h1" /\ t.urgency = "this_week" /\ t.date = Days(Today)

\* ---- C17
\* C17: the backlog never holds a todo made from a reminder; such a todo is
\* in the active list whatever its date.
C17_ReminderTodosNeverInBacklog ==
    /\ ReminderItems(backlog) = {}
    /\ JustLoaded =>
        \A r \in UserCreated :
            DueWithinWeek(r) =>
                \E t \in ReminderItems(appTodos) : t.reminderId = r.id

\* A reminder due more than 30 days ago is in the active list.
C17_Witness ==
    /\ JustLoaded
    /\ \E t \in ReminderItems(appTodos) :
        DayOf(t.date) < DayOf(now) - StalenessDays

\* ---- C18
\* C18: the step that ends init puts a todo of the analysis result in the
\* backlog exactly when its date is earlier than the clock reading minus 30
\* days, and in the active list otherwise (so also when the two are equal).
C18_BacklogIffOlderThanWindow ==
    [][Reconcile =>
        \A k \in 1..Len(result.todos) :
            LET t      == result.todos[k]
                older  == t.date # NaN /\ t.date < now - StalenessDays * TicksPerDay
            IN  /\ older <=> (\E b \in ItemsOf(backlog') : b.id = t.id)
                /\ ~older <=> (\E a \in ItemsOf(appTodos') : a.id = t.id)]_vars

\* A todo dated exactly 30 days before the clock reading is active, one
\* dated a tick earlier is in the backlog.
C18_Witness ==
    /\ JustLoaded
    /\ \E a \in EmailItems(appTodos) : a.date = now - StalenessDays * TicksPerDay
    /\ \E b \in EmailItems(backlog) : b.date = now - StalenessDays * TicksPerDay - 1

\* ---- C19
\* C19: in every state filteredTodos is in ascending order of urgency tier
\* and filteredBacklog in ascending order of date, and two items of equal
\* tier (date) stand in the order in which init put them in the list.
C19_ListsSortedAndStable ==
    LET TierRank(urgency) ==
            CHOOSE n \in 1..3 :
                <<"overdue", "this_week", "when_you_can">>[n] = urgency
    IN
    /\ \A a, b \in 1..Len(filteredTodos) :
        a < b =>
            LET x == filteredTodos[a]
                y == filteredTodos[b]
            IN  /\ TierRank(x.urgency) <= TierRank(y.urgency)
                /\ TierRank(x.urgency) = TierRank(y.urgency) =>
                       mergeOrder[x.id] < mergeOrder[y.id]
    /\ \A a, b \in 1..Len(filteredBacklog) :
        a < b =>
            LET x == filteredBacklog[a]
                y == filteredBacklog[b]
            IN  /\ x.date <= y.date
                /\ x.date = y.date => mergeOrder[x.id] < mergeOrder[y.id]

\* After a key press the active list shows a reminder todo in front of an
\* email todo that init put before it and two todos of equal tier, and the
\* backlog two todos of equal date.
C19_Witness ==
    /\ ~loading
    /\ keys >= 1
    /\ \E a, b \in 1..Len(filteredTodos) :
        /\ a < b
        /\ mergeOrder[filteredTodos[a].id] > mergeOrder[filteredTodos[b].id]
    /\ \E a, b \in 1..Len(filteredTodos) :
        a < b /\ filteredTodos[a].urgency = filteredTodos[b].urgency
    /\ \E a, b \in 1..Len(filteredBacklog) :
        a < b /\ filteredBacklog[a].date = filteredBacklog[b].date

\* --------------------------------------------------- TodoList.tsx: the window
MaxItems == 7
RowChoices == {0, 12, 14}

\* stdout?.rows || 24
VISIBLE_ITEMS(r) ==
    LET terminalHeight == IF r = 0 THEN 24 ELSE r
    IN  Max(5, terminalHeight - 8)

halfWindow(r) == VISIBLE_ITEMS(r) \div 2

\* Variant: the window is not adjusted near the end of the list.
TodoWindowNoEndAdjust(todos, sel, r) ==
    [windowStart |-> Max(0, sel - halfWindow(r)),
     windowEnd   |-> Max(0, sel - halfWindow(r)) + VISIBLE_ITEMS(r)]

\* windowStart and windowEnd as the component computes them.
TodoWindow(todos, sel, r) ==
    LET start == Max(0, sel - halfWindow(r))
        end   == start + VISIBLE_ITEMS(r)
    IN  IF end > Len(todos)
        THEN [windowStart |-> Max(0, Len(todos) - VISIBLE_ITEMS(r)),
              windowEnd   |-> Len(todos)]
        ELSE [windowStart |-> start, windowEnd |-> end]

\* addSection: nothing for an empty section, else its header and its todos,
\* numbered on from the sections before it.
RECURSIVE SectionsFrom(_, _, _)
SectionsFrom(todos, k, globalIndex) ==
    LET Sections == <<"overdue", "this_week", "when_you_can">>
    IN
    IF k > Len(Sections) THEN <<>>
    ELSE LET items == SelectSeq(todos, LAMBDA t : t.urgency = Sections[k])
         IN  (IF items = <<>> THEN <<>>
              ELSE <<[type |-> "header", title |-> Sections[k],
                      count |-> Len(items)]>>
                   \o [j \in 1..Len(items) |->
                         [type |-> "todo", todo |-> items[j],
                          globalIndex |-> globalIndex + j - 1]])
             \o SectionsFrom(todos, k + 1, globalIndex + Len(items))

flatList(todos) == SectionsFrom(todos, 1, 0)

\* todoCount when the loop reaches the entry at position p (from 1).
TodoCountAt(flat, p) ==
    Cardinality({q \in 1..(p - 1) : flat[q].type = "todo"})

\* Variant: the header before the first todo of the window is left out.
flatStartAtTodo(flat, windowStart) ==
    LET at == {p \in 1..Len(flat) : /\ flat[p].type = "todo"
                                    /\ TodoCountAt(flat, p) = windowStart}
    IN  IF at = {} THEN 0
        ELSE (CHOOSE x \in at : \A y \in at : x <= y) - 1

\* The entries before flatStart, 0 when the loop finds no todo to start at.
flatStart(flat, windowStart) ==
    LET at == {p \in 1..Len(flat) : /\ flat[p].type = "todo"
                                    /\ TodoCountAt(flat, p) = windowStart}
    IN  IF at = {} THEN 0
        ELSE LET p == CHOOSE x \in at : \A y \in at : x <= y
             IN  IF p > 1 /\ flat[p - 1].type = "header" THEN p - 2 ELSE p - 1

\* What TodoList renders of `todos` with the selection at `sel`: the window,
\* the slice of the flat list, and the numbers of the "more above" and
\* "more below" lines (<<>> for a line that is not rendered).
TodoList(todos, sel, r) ==
    LET w    == TodoWindow(todos, sel, r)
        flat == flatList(todos)
        from == flatStart(flat, w.windowStart)
        at   == {p \in 1..Len(flat) :
                    /\ flat[p].type = "todo"
                    /\ TodoCountAt(flat, p) = w.windowEnd - 1}
        to   == IF at = {} THEN Len(flat)
                ELSE CHOOSE x \in at : \A y \in at : x <= y
        \* flatList.slice(flatStart, flatEnd)
        visibleItems == IF to <= from THEN <<>>
                        ELSE SubSeq(flat, from + 1, to)
    IN  [windowStart |-> w.windowStart, windowEnd |-> w.windowEnd,
         shown |-> visibleItems,
         moreAbove |-> IF w.windowStart > 0 THEN <<w.windowStart>>
                       ELSE <<>>,
         moreBelow |-> IF w.windowEnd < Len(todos)
                       THEN <<Len(todos) - w.windowEnd>> ELSE <<>>]

\* A list of 1..MaxItems todos is about to be shown in a terminal.
InitViewport ==
    /\ inbox = [id \in EmailIds |-> [isStarred |-> FALSE, isUnread |-> TRUE]]
    /\ pc = "idle"
    /\ result = NoResult
    /\ AnalysisIdle
    /\ now = 0
    /\ reminders = <<>>
    /\ failing = {}
    /\ appTodos \in UNION {{[k \in 1..n |-> [id |-> k, urgency |-> f[k]]] :
                                f \in [1..n -> UrgencyTiers]} :
                            n \in 1..MaxItems}
    /\ backlog = <<>>
    /\ selectedGroup = NoGroup
    /\ view = "main"
    /\ selectedIndex \in 0..(Len(appTodos) - 1)
    /\ loading = FALSE
    /\ appError = NoError
    /\ mergeOrder = <<>>
    /\ rows \in RowChoices
    /\ win = NoWindow
    /\ reminderLists = <<>>
    /\ refreshTimer = FALSE
    /\ keys = 0
    /\ hashing = NoHashing
    /\ pipeline = NoPipeline
    /\ validation = NoValidation

viewportRest == <<inbox, db, pc, result, analysisVars, now, reminders,
                  failing, backlog, selectedGroup, view, loading, appError,
                  mergeOrder, reminderLists, refreshTimer, keys>>

\* The first render of the list.
ListMounted ==
    /\ win = NoWindow
    /\ win' = TodoList(appTodos, selectedIndex, rows)
    /\ UNCHANGED <<appTodos, selectedIndex, rows>>
    /\ UNCHANGED viewportRest

\* A render after the selection moved one up or one down.
SelectionMoved ==
    /\ win # NoWindow
    /\ \E sel \in {Max(0, selectedIndex - 1),
                    Min(Len(appTodos) - 1, selectedIndex + 1)} :
        /\ selectedIndex' = sel
        /\ win' = TodoList(appTodos, sel, rows)
    /\ UNCHANGED <<appTodos, rows>>
    /\ UNCHANGED viewportRest

\* A render after the terminal changed its height.
Resized ==
    /\ win # NoWindow
    /\ \E r \in RowChoices :
        /\ r # rows
        /\ rows' = r
        /\ win' = TodoList(appTodos, selectedIndex, r)
    /\ UNCHANGED <<appTodos, selectedIndex>>
    /\ UNCHANGED viewportRest

NextViewport == ListMounted \/ SelectionMoved \/ Resized

SpecViewport == InitViewport /\ [][NextViewport]_vars

\* ---- C20
\* C20: once the list is rendered, with n its length, V the number of
\* visible items and sel the selection, the window [windowStart, windowEnd)
\* has min(V, n) items and lies inside the list; it starts at
\* sel - floor(V/2) when that window lies inside the list and else at 0 or
\* ends at n; it holds sel; and the todos rendered are those numbered
\* windowStart .. windowEnd - 1, in that order.
C20_WindowCenteredAndClamped ==
    win # NoWindow =>
        LET n    == Len(appTodos)
            V    == VISIBLE_ITEMS(rows)
            s    == win.windowStart
            e    == win.windowEnd
            want == selectedIndex - (V \div 2)
            ShownTodos == SelectSeq(win.shown, LAMBDA x : x.type = "todo")
        IN  /\ e - s = Min(V, n)
            /\ 0 <= s /\ e <= n
            /\ IF want >= 0 /\ want + V <= n THEN s = want
               ELSE s = 0 \/ e = n
            /\ s <= selectedIndex /\ selectedIndex < e
            /\ Len(ShownTodos) = e - s
            /\ \A k \in 1..Len(ShownTodos) :
                ShownTodos[k].globalIndex = s + k - 1
            /\ win.shown[Len(win.shown)].type = "todo"

\* A list longer than the window is shown with the window centred on the
\* selection, away from both ends, with a header inside it.
C20_Witness ==
    /\ win # NoWindow
    /\ Len(appTodos) > VISIBLE_ITEMS(rows)
    /\ win.windowStart = selectedIndex - halfWindow(rows)
    /\ win.windowStart > 0
    /\ win.windowEnd < Len(appTodos)
    /\ \E k \in 2..Len(win.shown) : win.shown[k].type = "header"

\* ---- C21
\* C21: the rendered slice is a run of consecutive entries of the flat list;
\* the flat list has a header exactly for the urgency sections that hold a
\* todo, each in front of the todos of its section; and when the entry in
\* front of the first rendered todo is a header, the slice starts with that
\* header, so every rendered todo that is the first of its section has its
\* header rendered in front of it.
C21_SliceKeepsHeaders ==
    win # NoWindow =>
        LET flat == flatList(appTodos)
            IsHeader(x) == x.type = "header"
            Same(x, y) ==
                /\ x.type = y.type
                /\ IF IsHeader(x) THEN x.title = y.title
                   ELSE x.globalIndex = y.globalIndex
            first == CHOOSE p \in 1..Len(flat) :
                        /\ ~IsHeader(flat[p])
                        /\ flat[p].globalIndex = win.windowStart
            from  == IF first > 1 /\ IsHeader(flat[first - 1])
                     THEN first - 1 ELSE first
        IN  /\ \A k \in 1..Len(win.shown) :
                /\ from + k - 1 <= Len(flat)
                /\ Same(win.shown[k], flat[from + k - 1])
            /\ \A k \in 1..Len(win.shown) :
                (/\ ~IsHeader(win.shown[k])
                 /\ \A j \in 1..Len(appTodos) :
                     (appTodos[j].urgency = win.shown[k].todo.urgency) =>
                         ~(\E q \in 1..Len(flat) :
                             /\ ~IsHeader(flat[q])
                             /\ flat[q].todo.id = appTodos[j].id
                             /\ flat[q].globalIndex
                                    < win.shown[k].globalIndex))
                    => /\ k > 1
                       /\ IsHeader(win.shown[k - 1])
                       /\ win.shown[k - 1].title = win.shown[k].todo.urgency
            /\ {x.title : x \in {flat[q] : q \in {r \in 1..Len(flat) :
                                                    IsHeader(flat[r])}}}
                   = {appTodos[j].urgency : j \in 1..Len(appTodos)}
            /\ \A q \in 1..Len(flat) :
                IsHeader(flat[q]) =>
                    /\ q < Len(flat)
                    /\ ~IsHeader(flat[q + 1])
                    /\ flat[q + 1].todo.urgency = flat[q].title
                    /\ flat[q].count =
                           Cardinality({j \in 1..Len(appTodos) :
                               appTodos[j].urgency = flat[q].title})

\* The window starts below the top of the list at the first todo of a
\* section: the slice starts with the header of that section.
C21_Witness ==
    /\ win # NoWindow
    /\ win.windowStart > 0
    /\ win.shown[1].type = "header"
    /\ win.shown[2].globalIndex = win.windowStart
    /\ \E k \in 3..Len(win.shown) : win.shown[k].type = "header"

\* ---- C22
\* C22 as stated: the "more above" line gives the number of entries of the
\* flat list, headers included, in front of the slice, the "more below" line
\* the number behind it; a line is rendered exactly when its number is not
\* 0; and the two numbers and the length of the slice add up to the length
\* of the flat list.
C22_ExactMoreCounts ==
    win # NoWindow =>
        LET flat  == flatList(appTodos)
            first == CHOOSE p \in 1..Len(flat) :
                        /\ flat[p].type = "todo"
                        /\ flat[p].globalIndex = win.windowStart
            above == IF win.shown[1].type = "header" THEN first - 2
                     ELSE first - 1
            below == Len(flat) - above - Len(win.shown)
        IN  /\ win.moreAbove = IF above > 0 THEN <<above>> ELSE <<>>
            /\ win.moreBelow = IF below > 0 THEN <<below>> ELSE <<>>

\* ------------------------------------------------ hashEmail on two emails
\* Two emails to fingerprint.  The subjects "Aa", "BB" and "Ba", the senders
\* "a@b" and "a@c", the dates "Jan 5" and "Jan 6" and the snippets "ok" and
\* "oh" give pairs that agree in all six attributes, pairs that differ in one
\* code unit of one attribute, and a pair of subjects that differ in two.
InitHash ==
    /\ inbox = [id \in EmailIds |-> [isStarred |-> FALSE, isUnread |-> TRUE]]
    /\ pc = "idle"
    /\ result = NoResult
    /\ AnalysisIdle
    /\ now = 0
    /\ reminders = <<>>
    /\ failing = {}
    /\ appTodos = <<>>
    /\ backlog = <<>>
    /\ selectedGroup = NoGroup
    /\ view = "main"
    /\ selectedIndex = 0
    /\ loading = TRUE
    /\ appError = NoError
    /\ mergeOrder = <<>>
    /\ rows = 0
    /\ win = NoWindow
    /\ reminderLists = <<>>
    /\ refreshTimer = FALSE
    /\ keys = 0
    /\ pipeline = NoPipeline
    /\ validation = NoValidation
    /\ LET Texts  == [subject : {<<65, 97>>, <<66, 66>>, <<66, 97>>},
                      from    : {FromText, <<97, 64, 99>>},
                      date    : {DateText, <<74, 97, 110, 32, 54>>},
                      snippet : {SnippetText, <<111, 104>>}]
           Mail(id, t, fl) ==
               [id |-> id, threadId |-> ThreadOf(id), subject |-> t.subject,
                from |-> t.from, date |-> t.date, snippet |-> t.snippet,
                isStarred |-> fl.isStarred, isUnread |-> fl.isUnread]
       IN  \E t1 \in Texts, t2 \in Texts, f1 \in Flags, f2 \in Flags,
              id2 \in {"e1", "e2"} :
               /\ \/ t1 = t2
                  \/ /\ f1 = f2
                     /\ Cardinality({k \in DOMAIN t1 : t1[k] # t2[k]}) = 1
               /\ hashing = [first |-> Mail("e1", t1, f1),
                             second |-> Mail(id2, t2, f2),
                             hashes |-> <<>>]

hashingRest == <<inbox, wal, pc, allEmails, cachedTodos, uncachedEmails,
                 allNewTodos, i, batchTodos, cacheEntries, llm, response,
                 result, error, dbAtStart, adapterCalls, progress, submitted, analysed,
                 lastAnalysed, removed, lastRun, now, reminders, failing,
                 appTodos, backlog, selectedGroup, view, selectedIndex,
                 loading, appError, mergeOrder, rows, win, reminderLists,
                 refreshTimer, keys, pipeline, validation>>

\* hashEmail(first)
HashFirst ==
    /\ hashing.hashes = <<>>
    /\ hashing' = [hashing EXCEPT !.hashes = <<hashEmail(hashing.first)>>]
    /\ UNCHANGED db
    /\ UNCHANGED hashingRest

\* The first email is cached under its fingerprint between the two calls.
HashCached ==
    /\ Len(hashing.hashes) = 1
    /\ hashing.first.id \notin DOMAIN db
    /\ db' = InsertOrReplace(db,
                [emailId |-> hashing.first.id, account |-> "personal",
                 threadId |-> hashing.first.threadId,
                 emailHash |-> hashing.hashes[1], isTodo |-> FALSE,
                 todo |-> Null])
    /\ UNCHANGED hashing
    /\ UNCHANGED hashingRest

\* hashEmail(second)
HashSecond ==
    /\ Len(hashing.hashes) = 1
    /\ hashing' = [hashing EXCEPT
                      !.hashes = Append(@, hashEmail(hashing.second))]
    /\ UNCHANGED db
    /\ UNCHANGED hashingRest

NextHash == HashFirst \/ HashCached \/ HashSecond

SpecHash == InitHash /\ [][NextHash]_vars

\* ---- C23
\* The six attributes hashEmail reads, as code units.
SixOf(email) ==
    <<email.subject, email.from, email.date, email.snippet,
      IF email.isStarred THEN <<49>> ELSE <<48>>,
      IF email.isUnread THEN <<49>> ELSE <<48>>>>

\* C23: every fingerprint returned is a non-empty string, and two emails
\* that agree in the six attributes get the same fingerprint, whatever their
\* ids and threads are and whatever was written to the table between the
\* two calls.
C23_FingerprintPureFunction ==
    hashing # NoHashing =>
        /\ \A k \in 1..Len(hashing.hashes) : hashing.hashes[k] # ""
        /\ (/\ Len(hashing.hashes) = 2
            /\ SixOf(hashing.first) = SixOf(hashing.second))
               => hashing.hashes[1] = hashing.hashes[2]

\* Two emails with different ids and the same six attributes were
\* fingerprinted, the table was written in between, the fingerprints agree.
C23_Witness ==
    /\ hashing # NoHashing
    /\ Len(hashing.hashes) = 2
    /\ SixOf(hashing.first) = SixOf(hashing.second)
    /\ hashing.first.id # hashing.second.id
    /\ db # EmptyTable
    /\ hashing.hashes[1] = hashing.hashes[2]

\* ---- C24
\* The attributes, of the six, in which the two emails differ.
Changed == {k \in 1..6 : SixOf(hashing.first)[k] # SixOf(hashing.second)[k]}

\* C24 as stated: two emails that differ in exactly one of the six
\* attributes get different fingerprints.
C24_AnySingleChangeChangesFingerprint ==
    (/\ hashing # NoHashing
     /\ Len(hashing.hashes) = 2
     /\ Cardinality(Changed) = 1)
        => hashing.hashes[1] # hashing.hashes[2]

\* C24, amended: two emails that differ in exactly one of the six attributes
\* get different fingerprints when the two values of that attribute have the
\* same length and differ in exactly one code unit.
C24_OneCodeUnitChangesFingerprint ==
    (/\ hashing # NoHashing
     /\ Len(hashing.hashes) = 2
     /\ Cardinality(Changed) = 1
     /\ \A k \in Changed :
         LET a == SixOf(hashing.first)[k]
             b == SixOf(hashing.second)[k]
         IN  /\ Len(a) = Len(b)
             /\ Cardinality({j \in 1..Len(a) : a[j] # b[j]}) = 1)
        => hashing.hashes[1] # hashing.hashes[2]

\* The subjects "Aa" and "Ba", all else equal, got different fingerprints.
C24_Witness ==
    /\ hashing # NoHashing
    /\ Len(hashing.hashes) = 2
    /\ Changed = {1}
    /\ hashing.first.subject = <<65, 97>>
    /\ hashing.second.subject = <<66, 97>>
    /\ hashing.hashes[1] # hashing.hashes[2]

\* ---- C25
\* C25: two emails with the same subject, sender, date and snippet that
\* differ in the starred flag only, or in the unread flag only, get
\* different fingerprints.
C25_FlagChangesFingerprint ==
    (/\ hashing # NoHashing
     /\ Len(hashing.hashes) = 2
     /\ Changed \in {{5}, {6}})
        => hashing.hashes[1] # hashing.hashes[2]

\* An email starred and the same email not starred were fingerprinted.
C25_Witness ==
    /\ hashing # NoHashing
    /\ Len(hashing.hashes) = 2
    /\ Changed = {5}
    /\ ~hashing.first.isStarred /\ hashing.second.isStarred
    /\ hashing.hashes[1] # hashing.hashes[2]

\* ------------------------------------------- analyzeEmails, the table fails
\* A getCachedAnalysis of the lookup loop throws: stmt.get fails with an I/O
\* error, or JSON.parse fails on the todo_json of the row it read.  Nothing
\* in analyzeEmails catches it, the promise is rejected before any batch.
LookupThrows ==
    /\ pc = "idle"
    /\ LET items == Flatten(FetchEmails)
       IN  /\ allEmails' = items
           /\ \E k \in 1..Len(items) :
               \/ error' = "SqliteError: disk I/O error"
               \/ /\ items[k].email.id \in DOMAIN db
                  /\ db[items[k].email.id].email_hash = items[k].hash
                  /\ db[items[k].email.id].todo_json # SqlNull
                  /\ error' = "SyntaxError: Unexpected token"
    /\ pc' = "failed"
    /\ UNCHANGED <<inbox, db, wal, cachedTodos, uncachedEmails, allNewTodos,
                   i, batchTodos, cacheEntries, llm, response, result,
                   dbAtStart, adapterCalls, progress, submitted, analysed, lastAnalysed,
                   removed, lastRun>>
    /\ UNCHANGED appVars

\* A stmt.run of insertMany, or its COMMIT, throws: the transaction is
\* rolled back and the error leaves cacheAnalysisBatch and analyzeEmails.
WriteThrows ==
    /\ pc = "txn"
    /\ wal' = EmptyTable
    /\ pc' = "failed"
    /\ error' = "SqliteError: database or disk is full"
    /\ UNCHANGED <<inbox, db, allEmails, cachedTodos, uncachedEmails,
                   allNewTodos, i, batchTodos, cacheEntries, llm, response,
                   result, dbAtStart, adapterCalls, progress, submitted, analysed,
                   lastAnalysed, removed, lastRun>>
    /\ UNCHANGED appVars

NextStorage ==
    \/ AnalyzeStart
    \/ CliProbed
    \/ CliClosed
    \/ ApiReturned
    \/ ParseResponse
    \/ StmtRun
    \/ CommitBatch
    \/ CallerResumes
    \/ SetFlags
    \/ LookupThrows
    \/ WriteThrows

SpecStorage == Init /\ [][NextStorage]_vars

\* ---- C26
\* C26 as stated: when a read of the table fails during the lookup, the
\* call does not fail: no error reaches the caller and the emails are
\* submitted to the backend as misses.
C26_ReadFailureIsCacheMiss ==
    [][LookupThrows =>
        /\ pc' # "failed"
        /\ error' = NoError
        /\ submitted' # {}]_vars

\* ---- C27
\* C27 as stated: when the write of a batch fails, the error reaches the
\* caller, the table holds no row of the failed batch that it did not hold
\* before, and the todos computed so far in the call (cached ones, those of
\* the batches before and of this batch) are returned all the same.
C27_WriteFailureKeepsResults ==
    [][WriteThrows =>
        /\ error' # NoError
        /\ db' = db
        /\ wal' = EmptyTable
        /\ result' = [todos |-> cachedTodos \o allNewTodos \o batchTodos]]_vars

\* ----------------------------------------- callLLMCli, the process may hang
\* The close event of the claude process spawned by callLLMCli.
CliExits ==
    /\ llm.cli = "pending"
    /\ CliClosed

\* The claude process neither exits nor closes its output: callLLMCli has
\* registered the close and error handlers only, no timer, so its promise
\* stays pending.
CliHangs ==
    /\ pc = "cli"
    /\ llm.cli = "pending"
    /\ llm' = [llm EXCEPT !.cli = "hung"]
    /\ UNCHANGED <<inbox, db, wal, pc, allEmails, cachedTodos, uncachedEmails,
                   allNewTodos, i, batchTodos, cacheEntries, response, result,
                   error, dbAtStart, adapterCalls, progress, submitted, analysed,
                   lastAnalysed, removed, lastRun>>
    /\ UNCHANGED appVars

NextLive ==
    \/ AnalyzeStart
    \/ CliProbed
    \/ CliExits
    \/ CliHangs
    \/ ApiReturned
    \/ ParseResponse
    \/ StmtRun
    \/ CommitBatch
    \/ CallerResumes
    \/ SetFlags

\* Every promise that can settle does: the probe (it has a 5 s timer), the
\* close event of a process that is not hung, the API request, and the
\* synchronous steps of analyzeEmails.
SpecLive ==
    /\ Init
    /\ [][NextLive]_vars
    /\ WF_vars(CliProbed)
    /\ WF_vars(CliExits)
    /\ WF_vars(ApiReturned)
    /\ WF_vars(ParseResponse)
    /\ WF_vars(StmtRun)
    /\ WF_vars(CommitBatch)

\* ---- C29
\* C29 as stated: a call of analyzeEmails that has started its backend
\* eventually resolves or rejects, also when the claude process never
\* closes.
C29_AnalyzeAlwaysTerminates ==
    (pc \in {"probe", "cli", "api", "responded", "txn"})
        ~> (pc \in {"returned", "failed"})

\* ------------------------------------------------ App: runs of the pipeline
\* The App has mounted: loading.active is true and the effect has called
\* init() for the first time.
InitRuns ==
    /\ inbox = [id \in EmailIds |-> [isStarred |-> FALSE, isUnread |-> TRUE]]
    /\ pc = "idle"
    /\ result = NoResult
    /\ AnalysisIdle
    /\ now = 0
    /\ reminders = <<>>
    /\ failing = {}
    /\ appTodos = <<>>
    /\ backlog = <<>>
    /\ selectedGroup = NoGroup
    /\ view = "main"
    /\ selectedIndex = 0
    /\ loading = TRUE
    /\ appError = NoError
    /\ mergeOrder = <<>>
    /\ rows = 0
    /\ win = NoWindow
    /\ reminderLists = <<>>
    /\ refreshTimer = FALSE
    /\ keys = 0
    /\ hashing = NoHashing
    /\ pipeline = [runs |-> <<"mount">>, promises |-> <<>>, timers |-> 0,
                   done |-> {}, unstarred |-> <<{}>>]
    /\ validation = NoValidation

runsRest == <<inbox, db, pc, result, wal, allEmails, cachedTodos,
              uncachedEmails, allNewTodos, i, batchTodos, cacheEntries, llm,
              response, error, dbAtStart, adapterCalls, progress, submitted, analysed,
              lastAnalysed, removed, lastRun, hashing, validation, now,
              reminders,
              failing, mergeOrder, rows, win, reminderLists, refreshTimer>>

\* array.splice(k - 1, 1)
Drop(list, k) == SubSeq(list, 1, k - 1) \o SubSeq(list, k + 1, Len(list))

\* An init() in flight reaches its end: setTodos, setBacklog and
\* setLoading(active: false).  The accounts hold no, two or six emails
\* with a todo; the run found those that were still starred or unread when
\* it listed the inbox.
RunResolved ==
    /\ \E k \in 1..Len(pipeline.runs), n \in {0, 2, 6} :
        LET ids    == <<"e1", "e2", "e3", "e4", "e5", "e6">>
            emails == SelectSeq(SubSeq(ids, 1, n),
                                LAMBDA id : id \notin pipeline.unstarred[k])
            found  == [j \in 1..Len(emails) |->
                         AnalysisTodo(emails[j], "this_week", Days(Today))]
        IN  /\ Render(found, <<>>, selectedGroup)
            /\ pipeline' = [pipeline EXCEPT !.runs = Drop(@, k),
                                            !.unstarred = Drop(@, k)]
    /\ loading' = FALSE
    /\ UNCHANGED <<view, selectedIndex, appError, keys>>
    /\ UNCHANGED runsRest

\* An init() in flight throws, or finds no config: setError and
\* setLoading(active: false).
RunRejected ==
    /\ \E k \in 1..Len(pipeline.runs) :
        pipeline' = [pipeline EXCEPT !.runs = Drop(@, k),
                                     !.unstarred = Drop(@, k)]
    /\ appError' \in {"No config found. Run 'sift --setup' to configure.",
                      "Unknown error"}
    /\ loading' = FALSE
    /\ UNCHANGED <<appTodos, backlog, selectedGroup, view, selectedIndex,
                   keys>>
    /\ UNCHANGED runsRest

\* "r": the lists are emptied, refreshTrigger changes and the effect calls
\* init() again.
RefreshPressed ==
    /\ KeyPress
    /\ loading' = TRUE
    /\ Render(<<>>, <<>>, selectedGroup)
    /\ selectedIndex' = 0
    /\ view' = "main"
    /\ pipeline' = [pipeline EXCEPT
                        !.runs = Append(@, "key"),
                        !.unstarred = Append(@, pipeline.done)]
    /\ UNCHANGED appError
    /\ UNCHANGED runsRest

\* "d" on a todo made from an email: Promise.all([unstar, markRead]) is
\* pending; its callback closes over todo, view, currentList and loading
\* (loading.active is false in it, the handler ran).
DonePressed ==
    /\ KeyPress
    /\ HasSelection
    /\ Selected.source = "email"
    /\ pipeline' = [pipeline EXCEPT !.promises =
                        Append(@, [id |-> Selected.id,
                                   emailId |-> Selected.emailId,
                                   view |-> view,
                                   newListLength |->
                                       Len(Without(currentList, Selected.id))])]
    /\ UNCHANGED <<appTodos, backlog, selectedGroup, view, selectedIndex,
                   loading, appError>>
    /\ UNCHANGED runsRest

\* The Promise.all of a done handler settles.  Fulfilled: the email is
\* unstarred and read, removeCachedAnalysis has run, the todo leaves its
\* list and, when fewer than 5 are left, the 100 ms timer is set.
\* Rejected: there is no catch, nothing changes.
DoneSettled ==
    /\ \E k \in 1..Len(pipeline.promises) :
        LET p        == pipeline.promises[k]
            newTodos == Without(appTodos, p.id)
        IN  \/ /\ IF p.view = "backlog"
                  THEN /\ Render(appTodos, Without(backlog, p.id),
                                 selectedGroup)
                       /\ pipeline' = [pipeline EXCEPT
                                          !.promises = Drop(@, k),
                                          !.done = @ \cup {p.emailId}]
                  ELSE /\ Render(newTodos, backlog, selectedGroup)
                       /\ pipeline' = [pipeline EXCEPT
                              !.promises = Drop(@, k),
                              !.done = @ \cup {p.emailId},
                              !.timers = IF Len(newTodos) < 5 THEN @ + 1
                                         ELSE @]
               /\ selectedIndex' =
                      Min(selectedIndex, Max(0, p.newListLength - 1))
            \/ /\ pipeline' = [pipeline EXCEPT !.promises = Drop(@, k)]
               /\ UNCHANGED <<appTodos, backlog, selectedGroup,
                              selectedIndex>>
    /\ UNCHANGED <<view, loading, appError, keys>>
    /\ UNCHANGED runsRest

\* A timer of the done handler fires: setLoading(active: true),
\* refreshTrigger changes and the effect calls init() again.
AutoRefresh ==
    /\ pipeline.timers > 0
    /\ loading' = TRUE
    /\ pipeline' = [pipeline EXCEPT
                        !.timers = @ - 1,
                        !.runs = Append(@, "timer"),
                        !.unstarred = Append(@, pipeline.done)]
    /\ UNCHANGED <<appTodos, backlog, selectedGroup, view, selectedIndex,
                   appError, keys>>
    /\ UNCHANGED runsRest

NextRuns ==
    \/ RunResolved
    \/ RunRejected
    \/ RefreshPressed
    \/ KeyDown
    \/ DonePressed
    \/ DoneSettled
    \/ AutoRefresh

SpecRuns == InitRuns /\ [][NextRuns]_vars

\* ---- C28
\* C28 as stated: whatever keys are pressed and whenever the promises and
\* timers of the done handler fire, at most one init() is in flight.
C28_AtMostOneRunInFlight == Len(pipeline.runs) <= 1

\* ---- C30
\* C30 as stated: the error of a failed run is shown, "r" has started a new
\* run, it is the only one in flight and it succeeds: then the error is
\* cleared and the list is on screen instead of the error.
C30_RetryClearsError ==
    [][RunResolved /\ appError # NoError /\ pipeline.runs = <<"key">>
        => appError' = NoError /\ ~loading']_vars

\* ---- C31
\* C31 as stated: every todo analyzeEmails resolves with is made from an
\* email and carries the id of that email and no reminder id.
C31_ExactlyOneIdentity ==
    pc = "returned" =>
        \A k \in 1..Len(result.todos) :
            /\ result.todos[k].source = "email"
            /\ HasEmailId(result.todos[k])
            /\ "reminderId" \notin DOMAIN result.todos[k]

\* ---- C32
\* C32: in every state of the table a row has a todo_json exactly when its
\* is_todo is 1, and the todo stored there carries the row's email_id; so
\* getCachedTodos, for any set of ids, returns the todos of exactly the
\* requested ids that have a row with is_todo = 1.
C32_PayloadIffActionable ==
    /\ \A id \in DOMAIN db :
        /\ db[id].todo_json # SqlNull <=> db[id].is_todo = 1
        /\ db[id].is_todo = 1 => JSONparse(db[id].todo_json).emailId = id
    /\ \A ids \in SUBSET (EmailIds \cup {"zz"}) :
        LET found == getCachedTodos(db, ids)
        IN  /\ DOMAIN found = {id \in ids \cap DOMAIN db : db[id].is_todo = 1}
            /\ \A id \in DOMAIN found : found[id].emailId = id

\* The table holds a row with a todo and a row without, and a lookup of
\* both ids and of one without a row returns the first alone.
C32_Witness ==
    \E a, b \in DOMAIN db, c \in EmailIds :
        /\ db[a].is_todo = 1
        /\ db[b].is_todo = 0
        /\ c \notin DOMAIN db
        /\ DOMAIN getCachedTodos(db, {a, b, c}) = {a}

\* ------------------------------------------------- config.ts: validateConfig
\* A config as loadConfig parses it.  An optional field is <<>> when the key
\* is absent and <<value>> when it is there.
MaxAccounts == 2

\* Variant: the CLI counts as disabled unless preferClaudeCli is true.
validateConfigCliOffByDefault(config) ==
    LET accounts == IF config.accounts = <<>> THEN <<>>
                    ELSE config.accounts[1]
        RECURSIVE AccountErrors(_)
        AccountErrors(k) ==
            IF k > Len(accounts) THEN <<>>
            ELSE (IF accounts[k].name = ""
                  THEN <<"Account missing 'name'">> ELSE <<>>)
                 \o (IF accounts[k].email = ""
                     THEN <<"Account missing 'email'">> ELSE <<>>)
                 \o (IF accounts[k].group = ""
                     THEN <<"Account missing 'group'">> ELSE <<>>)
                 \o AccountErrors(k + 1)
        noKey == config.anthropicApiKey = <<>>
                 \/ config.anthropicApiKey = <<"">>
    IN  (IF Len(accounts) = 0 THEN <<"No accounts configured">> ELSE <<>>)
        \o AccountErrors(1)
        \o (IF noKey /\ config.preferClaudeCli # <<TRUE>>
            THEN <<"No Anthropic API key and Claude CLI disabled">>
            ELSE <<>>)

validateConfig(config) ==
    LET accounts == IF config.accounts = <<>> THEN <<>>
                    ELSE config.accounts[1]
        RECURSIVE AccountErrors(_)
        AccountErrors(k) ==
            IF k > Len(accounts) THEN <<>>
            ELSE (IF accounts[k].name = ""
                  THEN <<"Account missing 'name'">> ELSE <<>>)
                 \o (IF accounts[k].email = ""
                     THEN <<"Account missing 'email'">> ELSE <<>>)
                 \o (IF accounts[k].group = ""
                     THEN <<"Account missing 'group'">> ELSE <<>>)
                 \o AccountErrors(k + 1)
        noKey == config.anthropicApiKey = <<>>
                 \/ config.anthropicApiKey = <<"">>
    IN  (IF Len(accounts) = 0 THEN <<"No accounts configured">> ELSE <<>>)
        \o AccountErrors(1)
        \o (IF noKey /\ config.preferClaudeCli = <<FALSE>>
            THEN <<"No Anthropic API key and Claude CLI disabled">>
            ELSE <<>>)

InitConfig ==
    /\ inbox = [id \in EmailIds |-> [isStarred |-> FALSE, isUnread |-> TRUE]]
    /\ pc = "idle"
    /\ result = NoResult
    /\ AnalysisIdle
    /\ now = 0
    /\ reminders = <<>>
    /\ failing = {}
    /\ appTodos = <<>>
    /\ backlog = <<>>
    /\ selectedGroup = NoGroup
    /\ view = "main"
    /\ selectedIndex = 0
    /\ loading = TRUE
    /\ appError = NoError
    /\ mergeOrder = <<>>
    /\ rows = 0
    /\ win = NoWindow
    /\ reminderLists = <<>>
    /\ refreshTimer = FALSE
    /\ keys = 0
    /\ hashing = NoHashing
    /\ pipeline = NoPipeline
    /\ LET Account == [name : {"", "work"}, email : {"", "me@work.com"},
                       group : {"", "work"}]
       IN  \E accounts \in {<<>>} \cup {<<list>> :
                                list \in SeqsUpTo(Account, MaxAccounts)},
              key \in {<<>>, <<"">>, <<"sk-ant-xxx">>},
              cli \in {<<>>, <<TRUE>>, <<FALSE>>} :
               validation = [config |-> [accounts |-> accounts,
                                         anthropicApiKey |-> key,
                                         preferClaudeCli |-> cli],
                             errors |-> <<>>]

configRest == <<inbox, db, pc, result, wal, allEmails, cachedTodos,
                uncachedEmails, allNewTodos, i, batchTodos, cacheEntries,
                llm, response, error, dbAtStart, adapterCalls, progress, submitted,
                analysed, lastAnalysed, removed, lastRun, hashing, pipeline,
                now, reminders, failing, appTodos, backlog, selectedGroup,
                view, selectedIndex, loading, appError, mergeOrder, rows,
                win, reminderLists, refreshTimer, keys>>

\* validateConfig(config)
Validate ==
    /\ validation.errors = <<>>
    /\ validation' = [validation EXCEPT
                         !.errors = <<validateConfig(validation.config)>>]
    /\ UNCHANGED configRest

NextConfig == Validate

SpecConfig == InitConfig /\ [][NextConfig]_vars

\* ---- C33
\* C33: validateConfig returns no error exactly when there is at least one
\* account, every account has a name, an email and a group, and it is not
\* the case that the API key is missing while preferClaudeCli is false; and
\* every violated rule has its own message in the list: one for an empty
\* account list, one per empty field of an account, one for the missing
\* backend.
C33_ValidateConfigRules ==
    validation.errors # <<>> =>
        LET c        == validation.config
            errs     == validation.errors[1]
            accounts == IF c.accounts = <<>> THEN <<>> ELSE c.accounts[1]
            Count(msg) == Cardinality({k \in 1..Len(errs) : errs[k] = msg})
            Empty(f) == Cardinality({k \in 1..Len(accounts) :
                                        accounts[k][f] = ""})
            noKey    == c.anthropicApiKey \in {<<>>, <<"">>}
            noLLM    == noKey /\ c.preferClaudeCli = <<FALSE>>
        IN  /\ errs = <<>> <=>
                   /\ Len(accounts) >= 1
                   /\ \A k \in 1..Len(accounts) :
                       /\ accounts[k].name # ""
                       /\ accounts[k].email # ""
                       /\ accounts[k].group # ""
                   /\ ~noLLM
            /\ Count("No accounts configured") =
                   IF Len(accounts) = 0 THEN 1 ELSE 0
            /\ Count("Account missing 'name'") = Empty("name")
            /\ Count("Account missing 'email'") = Empty("email")
            /\ Count("Account missing 'group'") = Empty("group")
            /\ Count("No Anthropic API key and Claude CLI disabled") =
                   IF noLLM THEN 1 ELSE 0
            /\ Len(errs) = (IF Len(accounts) = 0 THEN 1 ELSE 0)
                           + Empty("name") + Empty("email") + Empty("group")
                           + (IF noLLM THEN 1 ELSE 0)

\* A config with one complete account and no API key has been accepted,
\* preferClaudeCli being absent.
C33_Witness ==
    /\ validation.errors = <<<<>>>>
    /\ validation.config.anthropicApiKey = <<>>
    /\ validation.config.preferClaudeCli = <<>>
    /\ Len(validation.config.accounts[1]) = 1

\* ---- C34
\* C34: the misses are cut in input order into consecutive batches of
\* BATCH_SIZE emails, the last one holding the rest.  While the batch at
\* index i is with the backend or being written, i is a multiple of
\* BATCH_SIZE, the prompt lists exactly the emails of that batch, it is the
\* (i / BATCH_SIZE + 1)-th callLLM of the call, and the rows of all
\* batches before it are committed (rows removed by the done handler
\* meanwhile aside), no transaction being open during the backend call.
\* A call with m > 0 misses that returns has made ceil(m / BATCH_SIZE)
\* callLLM calls.
C34_BatchesInOrder ==
    LET m == Len(uncachedEmails)
        last == IF i + BATCH_SIZE < m THEN i + BATCH_SIZE ELSE m
    IN  /\ pc \in {"probe", "cli", "api", "responded", "txn"} =>
            /\ i % BATCH_SIZE = 0
            /\ i < m
            /\ adapterCalls = (i \div BATCH_SIZE) + 1
            /\ submitted = {<<uncachedEmails[k].email.id,
                              uncachedEmails[k].hash>> : k \in (i + 1)..last}
            /\ Cardinality(submitted) = last - i
            /\ last - i <= BATCH_SIZE
            /\ last < m => last - i = BATCH_SIZE
            /\ \A k \in 1..i :
                uncachedEmails[k].email.id \notin removed =>
                    Written(uncachedEmails[k])
            /\ pc # "txn" => wal = EmptyTable
        /\ (pc = "returned" /\ m > 0) =>
            adapterCalls = (m + BATCH_SIZE - 1) \div BATCH_SIZE

\* A call with more misses than one batch holds has returned after two
\* callLLM calls.
C34_Witness ==
    /\ pc = "returned"
    /\ Len(uncachedEmails) = BATCH_SIZE + 1
    /\ adapterCalls = 2

\* ---- C35
\* C35 as stated: when a batch completes (its rows are committed and its
\* todos pushed), onProgress is called with the number of emails that
\* remain to be analysed after that batch; and the remaining counts of a
\* call's reports never increase.
C35_ProgressAfterEachBatch ==
    [][CommitBatch =>
        LET m    == Len(uncachedEmails)
            done == IF i + BATCH_SIZE < m THEN i + BATCH_SIZE ELSE m
        IN  /\ Len(progress') = Len(progress) + 1
            /\ progress'[Len(progress')][2] = m - done
            /\ \A k \in 1..Len(progress) :
                progress'[k][2] >= progress'[k + 1][2]]_vars

\* ---- C36
\* C36 as stated: in every state of the App a todo made from an email shows
\* the reminder state pending or completed only if the default list of
\* Apple Reminders holds a reminder whose notes carry the back-reference to
\* that email; a failed remind action leaves the state at none.
C36_StateOnlyFromTracker ==
    \A t \in EmailItems(appTodos) \cup EmailItems(backlog) :
        t.reminderState # "none" =>
            \E k \in 1..Len(reminders[defaultList]) :
                \E j \in 1..Len(reminders[defaultList][k].notes) :
                    /\ reminders[defaultList][k].notes[j].prefix = SIFT_PREFIX
                    /\ reminders[defaultList][k].notes[j].rest = t.emailId

\* ---- C37
\* C37 as stated: in the main view and in the backlog view, the row that
\* TodoList highlights (the todo entry whose globalIndex equals
\* selectedIndex) is currentList[selectedIndex], the item the open, done,
\* star and remind keys act on.
C37_HighlightIsSelected ==
    (~loading /\ HasSelection) =>
        \A p \in 1..Len(flatList(currentList)) :
            (/\ flatList(currentList)[p].type = "todo"
             /\ flatList(currentList)[p].globalIndex = selectedIndex)
                => flatList(currentList)[p].todo = Selected

\* ---- C38
\* C38 as stated: in every state of the App with loading inactive,
\* selectedIndex is 0 when the current list is empty and otherwise lies in
\* 0 .. Len(currentList) - 1, after any sequence of navigation keys, view
\* and group switches, done actions and refreshes.
C38_SelectionInRange ==
    ~loading =>
        IF currentList = <<>> THEN selectedIndex = 0
        ELSE selectedIndex \in 0..(Len(currentList) - 1)

\* ---- C39
\* C39 as stated: once the done action of an email has completed, no todo
\* of that email is on a displayed list again, also when a run that listed
\* the inbox before the completion resolves after it.
C39_DoneItemStaysOff ==
    \A t \in EmailItems(appTodos) \cup EmailItems(backlog) :
        t.emailId \notin pipeline.done

\* ---- C40
\* C40 as stated: after any sequence of remind actions the default list
\* holds at most one reminder whose notes back-reference a given email:
\* createReminderFromTodo adds none when one exists, whether or not the
\* list query of remindctl succeeds.
C40_AtMostOneReminderPerEmail ==
    \A id \in EmailIds :
        Cardinality({k \in 1..Len(reminders[defaultList]) :
            \E j \in 1..Len(reminders[defaultList][k].notes) :
                /\ reminders[defaultList][k].notes[j].prefix = SIFT_PREFIX
                /\ reminders[defaultList][k].notes[j].rest = id}) <= 1

====
